---- MODULE Spec2Model ----
(***************************************************************************)
(* A model of loxr: the open-addressing Table (src/src/table.rs), the      *)
(* bytecode Chunk (src/src/chunk.rs), the Lexer (src/src/lexer.rs), the    *)
(* Pratt compiler (src/src/compiler.rs) and the stack VM (src/src/vm.rs).  *)
(*                                                                         *)
(* Each component has its own specification over the shared variables;     *)
(* the variables of the other components stay at their initial values.     *)
(***************************************************************************)
EXTENDS Integers, Sequences, FiniteSets, TLC

VARIABLES
    entries,    \* Table.entries : sequence of Slot (index i of the code is i+1 here)
    count,      \* Table.count
    tmodel,     \* history: the map the calls made so far describe (key -> value or Absent)
    tcall,      \* history: the last Table call, its argument and what it returned
    chunk,      \* a Chunk: code, lines ([run length] [line no] ...) and constants
    written,    \* history: the line passed to the write call of every offset
    source,     \* the source text handed to Lexer::new / compile / interpret
    lexer,      \* Lexer fields start, current, line and the MultiPeek cursor
    token,      \* the token the last lex_token call returned
    lexcall,    \* history: how the last lex_token call ended, and `current` before it
    ccall,      \* history: how the last compile call ended (Ok or Err, the parser's flag)
    ip,         \* VM.ip
    stack,      \* VM.stack
    vmcall      \* history: the last VM call: its result and reports, the VM it found
                \* and the VM its interpret_chunk loop started from

tableVars == <<entries, count, tmodel, tcall>>
chunkVars == <<chunk, written>>
lexVars   == <<lexer, token, lexcall>>
vmVars    == <<ccall, ip, stack, vmcall>>
vars == <<entries, count, tmodel, tcall, chunk, written, source, lexer, token, lexcall, ccall, ip, stack, vmcall>>

(***************************************************************************)
(* Characters.  A string is a sequence of one-character strings; Code is   *)
(* the `c as usize` of the characters the model uses (all ASCII, so byte   *)
(* offsets and character counts coincide).                                 *)
(***************************************************************************)
Code(c) ==
    CASE c = "a" -> 97  [] c = "b" -> 98  [] c = "c" -> 99  [] c = "d" -> 100
      [] c = "e" -> 101 [] c = "f" -> 102 [] c = "g" -> 103 [] c = "h" -> 104
      [] c = "i" -> 105 [] c = "l" -> 108 [] c = "n" -> 110 [] c = "o" -> 111
      [] c = "r" -> 114 [] c = "s" -> 115 [] c = "t" -> 116 [] c = "u" -> 117
      [] c = "x" -> 120 [] c = "0" -> 48  [] c = "1" -> 49  [] c = "2" -> 50
      [] c = "3" -> 51  [] c = "4" -> 52  [] c = "5" -> 53  [] c = "6" -> 54
      [] c = "7" -> 55  [] c = "8" -> 56  [] c = "9" -> 57

(***************************************************************************)
(*                              T A B L E                                  *)
(***************************************************************************)

\* Bounds of the Table model.
NumKeys == 3
NumVals == 2
MaxCap  == 8

AllKeys == <<  <<"a">>, <<"b">>, <<"c">>, <<"d">>, <<"e">>, <<"f">>, <<"g">>, <<"h">> >>
Keys == {AllKeys[n] : n \in 1..NumKeys}
Vals == 1..NumVals

Absent == "None"

\* enum Slot
Empty == [tag |-> "Empty"]
Tombstone == [tag |-> "Tombstone"]
Entry(k, v) == [tag |-> "Entry", key |-> k, value |-> v]

\* hash() keeps a usize and Table only ever uses hash(key) % entries.len().
\* The capacities are 8 * 2^n, so only the low bits of the usize decide the
\* slot, and the low 16 bits of a wrapping product are the product of
\* the low 16 bits.  The model keeps the hash modulo 2^16.
\* FnvOffsetLow is 2166136261 (0x811C9DC5) modulo 2^16, FnvPrimeLow is
\* 16777619 (0x01000193) modulo 2^16.
HashMod == 65536
FnvOffsetLow == 40389
FnvPrimeLow == 403

RECURSIVE Xor(_, _)
Xor(a, b) ==
    IF a = 0 THEN b
    ELSE IF b = 0 THEN a
    ELSE (((a % 2) + (b % 2)) % 2) + 2 * Xor(a \div 2, b \div 2)

RECURSIVE HashFrom(_, _, _)
HashFrom(s, n, h) ==
    IF n > Len(s) THEN h
    ELSE HashFrom(s, n + 1, (Xor(h, Code(s[n])) * FnvPrimeLow) % HashMod)

hash(s) == HashFrom(s, 1, FnvOffsetLow)

grow_capacity(cap) == IF cap < 8 THEN 8 ELSE cap * 2

\* find_entry: the linear probe.  `steps` counts the slots visited; after
\* entries.len() steps without a return the loop is back at its first slot
\* with the same array, so it never returns: outcome "diverge".
\* An empty array makes `hash(key) % entries.len()` panic: outcome "panic".
RECURSIVE probe(_, _, _, _, _)
probe(ents, key, i, last_tombstone, steps) ==
    IF steps = Len(ents) THEN [outcome |-> "diverge", i |-> i, slot |-> Empty]
    ELSE LET slot == ents[i + 1] IN
         CASE slot.tag = "Tombstone" ->
                probe(ents, key, (i + 1) % Len(ents), TRUE, steps + 1)
           [] slot.tag = "Empty" ->
                IF last_tombstone
                THEN [outcome |-> "return", i |-> i, slot |-> Tombstone]
                ELSE [outcome |-> "return", i |-> i, slot |-> Empty]
           [] OTHER ->
                IF slot.key = key
                THEN [outcome |-> "return", i |-> i, slot |-> slot]
                ELSE probe(ents, key, (i + 1) % Len(ents), last_tombstone, steps + 1)

find_entry(ents, key) ==
    IF Len(ents) = 0 THEN [outcome |-> "panic", i |-> 0, slot |-> Empty]
    ELSE probe(ents, key, hash(key) % Len(ents), FALSE, 0)

\* adjust_capacity: rehash every Slot::Entry of the old array, in order,
\* into a fresh array of cap Empty slots; count is recomputed.
RECURSIVE rehash(_, _, _, _)
rehash(old, n, new_entries, cnt) ==
    IF n > Len(old) THEN [entries |-> new_entries, count |-> cnt]
    ELSE IF old[n].tag = "Entry"
         THEN LET f == find_entry(new_entries, old[n].key) IN
              rehash(old, n + 1, [new_entries EXCEPT ![f.i + 1] = old[n]], cnt + 1)
         ELSE rehash(old, n + 1, new_entries, cnt)

adjust_capacity(ents, cap) == rehash(ents, 1, [n \in 1..cap |-> Empty], 0)

\* the threshold with MAX_LOAD = 1.0: grow only when the array is full
must_grow_when_full(ents, cnt) == cnt + 1 > Len(ents)

\* insert grows when (count + 1) as f64 > entries.len() as f64 * 0.75, which
\* for these small integers is 4 * (count + 1) > 3 * entries.len().
must_grow(ents, cnt) == 4 * (cnt + 1) > 3 * Len(ents)

\* insert with `self.count += 1` moved out of the match: every write counts
insert_counts_every_write(ents, cnt, key, value) ==
    LET g == IF must_grow(ents, cnt)
             THEN adjust_capacity(ents, grow_capacity(Len(ents)))
             ELSE [entries |-> ents, count |-> cnt]
        f == find_entry(g.entries, key)
    IN  IF f.outcome # "return"
        THEN [outcome |-> f.outcome, entries |-> g.entries, count |-> g.count, ret |-> Absent]
        ELSE [outcome |-> "return",
              entries |-> [g.entries EXCEPT ![f.i + 1] = Entry(key, value)],
              count |-> g.count + 1,
              ret |-> IF f.slot.tag = "Entry" THEN f.slot.value ELSE Absent]

\* The table after insert(key, value) and what the call returns.
insert(ents, cnt, key, value) ==
    LET g == IF must_grow(ents, cnt)
             THEN adjust_capacity(ents, grow_capacity(Len(ents)))
             ELSE [entries |-> ents, count |-> cnt]
        f == find_entry(g.entries, key)
    IN  IF f.outcome # "return"
        THEN [outcome |-> f.outcome, entries |-> g.entries, count |-> g.count, ret |-> Absent]
        ELSE [outcome |-> "return",
              entries |-> [g.entries EXCEPT ![f.i + 1] = Entry(key, value)],
              count |-> IF f.slot.tag = "Empty" THEN g.count + 1 ELSE g.count,
              ret |-> IF f.slot.tag = "Entry" THEN f.slot.value ELSE Absent]

\* get without the `if self.count == 0` shortcut
get_always_probes(ents, cnt, key) ==
    LET f == find_entry(ents, key) IN
    IF f.outcome # "return" THEN [outcome |-> f.outcome, ret |-> Absent]
    ELSE [outcome |-> "return",
          ret |-> IF f.slot.tag = "Entry" THEN f.slot.value ELSE Absent]

get(ents, cnt, key) ==
    IF cnt = 0 THEN [outcome |-> "return", ret |-> Absent]
    ELSE LET f == find_entry(ents, key) IN
         IF f.outcome # "return" THEN [outcome |-> f.outcome, ret |-> Absent]
         ELSE [outcome |-> "return",
               ret |-> IF f.slot.tag = "Entry" THEN f.slot.value ELSE Absent]

delete(ents, cnt, key) ==
    IF cnt = 0 THEN [outcome |-> "return", entries |-> ents, ret |-> FALSE]
    ELSE LET f == find_entry(ents, key) IN
         IF f.outcome # "return" THEN [outcome |-> f.outcome, entries |-> ents, ret |-> FALSE]
         ELSE IF f.slot.tag = "Entry"
              THEN [outcome |-> "return", entries |-> [ents EXCEPT ![f.i + 1] = Tombstone],
                    ret |-> TRUE]
              ELSE [outcome |-> "return", entries |-> ents, ret |-> FALSE]

NoCall == [op |-> "none", key |-> <<>>, outcome |-> "return", ret |-> Absent, before |-> Absent]

\* A call that did not return ends the run of the program: no later call.
TableLive == tcall.outcome = "return"

Insert(k, v) ==
    /\ TableLive
    /\ must_grow(entries, count) => grow_capacity(Len(entries)) <= MaxCap
    /\ LET r == insert(entries, count, k, v) IN
       /\ entries' = r.entries
       /\ count' = r.count
       /\ tcall' = [op |-> "insert", key |-> k, outcome |-> r.outcome, ret |-> r.ret,
                    before |-> tmodel[k]]
       /\ tmodel' = IF r.outcome = "return" THEN [tmodel EXCEPT ![k] = v] ELSE tmodel

Get(k) ==
    /\ TableLive
    /\ LET r == get(entries, count, k) IN
       tcall' = [op |-> "get", key |-> k, outcome |-> r.outcome, ret |-> r.ret,
                 before |-> tmodel[k]]
    /\ UNCHANGED <<entries, count, tmodel>>

Delete(k) ==
    /\ TableLive
    /\ LET r == delete(entries, count, k) IN
       /\ entries' = r.entries
       /\ tcall' = [op |-> "delete", key |-> k, outcome |-> r.outcome, ret |-> r.ret,
                    before |-> tmodel[k]]
       /\ tmodel' = IF r.outcome = "return" THEN [tmodel EXCEPT ![k] = Absent] ELSE tmodel
    /\ UNCHANGED count

(***************************************************************************)
(*                              C H U N K                                  *)
(***************************************************************************)

\* Bounds of the Chunk model.
MaxCode == 4
MaxLine == 3
MaxByte == 1

\* Chunk::new
NewChunk == [code |-> <<>>, lines |-> <<>>, constants |-> <<>>]

\* write that increments the last element of lines (the line number) in
\* place of the run length before it
write_bumps_line(ch, byte, line_number) ==
    LET n == Len(ch.lines) IN
    IF n # 0 /\ ch.lines[n] = line_number
    THEN [ch EXCEPT !.code = Append(ch.code, byte),
                    !.lines = [ch.lines EXCEPT ![n] = ch.lines[n] + 1]]
    ELSE [ch EXCEPT !.code = Append(ch.code, byte),
                    !.lines = ch.lines \o <<1, line_number>>]

\* Chunk::write
write(ch, byte, line_number) ==
    LET n == Len(ch.lines) IN
    IF n # 0 /\ ch.lines[n] = line_number
    THEN [ch EXCEPT !.code = Append(ch.code, byte),
                    !.lines = [ch.lines EXCEPT ![n - 1] = ch.lines[n - 1] + 1]]
    ELSE [ch EXCEPT !.code = Append(ch.code, byte),
                    !.lines = ch.lines \o <<1, line_number>>]

\* add_constant that returns constants.len() after the push, one past the
\* index of the value
add_constant_returns_len(ch, value) ==
    [chunk |-> [ch EXCEPT !.constants = Append(ch.constants, value)],
     index |-> Len(ch.constants) + 1]

\* Chunk::add_constant: the chunk after the push and the index returned
add_constant(ch, value) ==
    [chunk |-> [ch EXCEPT !.constants = Append(ch.constants, value)],
     index |-> Len(ch.constants)]

\* Chunk::line_at: the loop over self.lines.chunks(2); p is the position of
\* the pair's run length in lines
RECURSIVE line_at_loop(_, _, _, _, _)
line_at_loop(lns, offset, p, bytes, current_line) ==
    IF p > Len(lns) THEN current_line
    ELSE LET run_length == lns[p]
             line_number == lns[p + 1]
         IN  IF offset > bytes + run_length
             THEN current_line
             ELSE line_at_loop(lns, offset, p + 2, bytes + run_length, line_number)

line_at(ch, offset) == line_at_loop(ch.lines, offset, 1, 0, 0)

Write(byte, line_number) ==
    /\ Len(chunk.code) < MaxCode
    /\ chunk' = write(chunk, byte, line_number)
    /\ written' = Append(written, line_number)

(***************************************************************************)
(*                              L E X E R                                  *)
(***************************************************************************)

\* char::is_alphabetic / is_alphanumeric on the characters of the model
Digits == {"0", "1", "2", "3", "4", "5", "6", "7", "8", "9"}
Letters == {"a", "b", "c", "d", "e", "f", "g", "h", "i", "l", "n", "o", "p",
            "r", "s", "t", "u", "v", "w", "x", "y"}
is_alphabetic(c) == c \in Letters
is_alphanumeric(c) == c \in Letters \cup Digits

None == "None"

\* the token Parser::new puts in current and previous
NoToken == [token_type |-> "Error", lexeme |-> <<>>, line |-> 0]

\* The lexer is the record [start, current, line, peeked]: the three counters
\* of struct Lexer and the cursor of its MultiPeek iterator.  The iterator
\* has yielded `current` characters (advance and check move both together),
\* and `peeked` is MultiPeek's index: how far peek() has looked ahead since
\* the last next() or reset_peek().
Lexer_new == [start |-> 0, current |-> 0, line |-> 1, peeked |-> 0]

\* &self.source[from..to]; slicing past the end (or backwards) panics
SliceOk(src, from, to) == from <= to /\ to <= Len(src)
Slice(src, from, to) == SubSeq(src, from + 1, to)

is_at_end_early(src, lx) == lx.current + 1 >= Len(src)

is_at_end(src, lx) == lx.current >= Len(src)

\* MultiPeek::peek: the element at the cursor, moving the cursor on; None
\* at the end of the iterator, leaving the cursor
peek(src, lx) ==
    IF lx.current + lx.peeked < Len(src)
    THEN [ch |-> src[lx.current + lx.peeked + 1], lx |-> [lx EXCEPT !.peeked = lx.peeked + 1]]
    ELSE [ch |-> None, lx |-> lx]

reset_peek(lx) == [lx EXCEPT !.peeked = 0]

\* Lexer::advance: MultiPeek::next yields the next unconsumed character and
\* resets the cursor; unwrap() panics when there is none
advance_ok(src, lx) == lx.current < Len(src)
advance_ch(src, lx) == src[lx.current + 1]
advance(lx) == [lx EXCEPT !.current = lx.current + 1, !.peeked = 0]

\* Lexer::check: the lexer after the call and whether it matched
check(src, lx, expected) ==
    IF is_at_end(src, lx) THEN [lx |-> lx, matched |-> FALSE]
    ELSE IF peek(src, lx).ch # expected THEN [lx |-> reset_peek(lx), matched |-> FALSE]
    ELSE [lx |-> advance(lx), matched |-> TRUE]

make_token(src, lx, token_type) ==
    [token_type |-> token_type, lexeme |-> Slice(src, lx.start, lx.current), line |-> lx.line]

\* error_token: the lexeme is the message (kept as a one-element sequence)
error_token(lx, msg) == [token_type |-> "Error", lexeme |-> <<msg>>, line |-> lx.line]

Returned(lx, tok) == [outcome |-> "return", lx |-> lx, token |-> tok]
Panicked(lx) == [outcome |-> "panic", lx |-> lx, token |-> NoToken]
Diverged(lx) == [outcome |-> "diverge", lx |-> lx, token |-> NoToken]

RECURSIVE string_loop(_, _)
string_loop(src, lx) ==
    IF is_at_end(src, lx) THEN lx
    ELSE LET p == peek(src, lx) IN
         IF p.ch = "\"" THEN p.lx
         ELSE IF p.ch = "\n" THEN string_loop(src, advance([p.lx EXCEPT !.line = p.lx.line + 1]))
         ELSE string_loop(src, advance(p.lx))

string_token(src, lx0) ==
    LET closing(lx) ==
            IF is_at_end(src, lx) THEN Returned(lx, error_token(lx, "Unterminated string"))
            ELSE Returned(advance(lx), make_token(src, advance(lx), "String"))
    IN  closing(reset_peek(string_loop(src, lx0)))

RECURSIVE consume_digits_loop(_, _)
consume_digits_loop(src, lx) ==
    LET p == peek(src, lx) IN
    IF p.ch \in Digits THEN consume_digits_loop(src, advance(p.lx)) ELSE p.lx

consume_digits(src, lx) == reset_peek(consume_digits_loop(src, lx))

\* number_token that consumes the '.' it has peeked before looking for the
\* digits of the fraction
number_token_takes_dot(src, lx0) ==
    LET token_at(lx) == Returned(lx, make_token(src, lx, "Number"))
        fraction(p) == IF p.ch = "." THEN consume_digits(src, advance(p.lx)) ELSE p.lx
    IN  token_at(reset_peek(fraction(peek(src, consume_digits(src, lx0)))))

number_token(src, lx0) ==
    LET token_at(lx) == Returned(lx, make_token(src, lx, "Number"))
        fraction(p) == IF p.ch = "." THEN consume_digits(src, p.lx) ELSE p.lx
    IN  token_at(reset_peek(fraction(peek(src, consume_digits(src, lx0)))))

check_keyword(src, lx, start, length, rest, token_type) ==
    LET keyword_start == lx.start + start
        keyword_end == lx.start + start + length
    IN  IF ~SliceOk(src, keyword_start, keyword_end) THEN Panicked(lx)
        ELSE IF Slice(src, keyword_start, keyword_end) = rest
             THEN Returned(lx, make_token(src, lx, token_type))
             ELSE Returned(lx, make_token(src, lx, "Identifier"))

RECURSIVE identifier_loop(_, _)
identifier_loop(src, lx) ==
    LET p == peek(src, lx) IN
    IF p.ch # None /\ is_alphanumeric(p.ch) THEN identifier_loop(src, advance(p.lx)) ELSE p.lx

identifier_type(src, lx) ==
    LET first == Slice(src, lx.start, lx.start + 1)
        second == Slice(src, lx.start + 1, lx.start + 2)
        long == lx.current - lx.start > 1
    IN  CASE first = <<"a">> -> check_keyword(src, lx, 1, 2, <<"n", "d">>, "And")
          [] first = <<"c">> -> check_keyword(src, lx, 1, 4, <<"l", "a", "s", "s">>, "Class")
          [] first = <<"e">> -> check_keyword(src, lx, 1, 3, <<"l", "s", "e">>, "Else")
          [] first = <<"f">> /\ long ->
                CASE second = <<"a">> -> check_keyword(src, lx, 2, 3, <<"l", "s", "e">>, "False")
                  [] second = <<"o">> -> check_keyword(src, lx, 2, 1, <<"r">>, "For")
                  [] second = <<"u">> -> check_keyword(src, lx, 2, 1, <<"n">>, "Fun")
                  [] OTHER -> Returned(lx, make_token(src, lx, "Identifier"))
          [] first = <<"i">> -> check_keyword(src, lx, 1, 1, <<"f">>, "If")
          [] first = <<"n">> -> check_keyword(src, lx, 1, 2, <<"i", "l">>, "Nil")
          [] first = <<"o">> -> check_keyword(src, lx, 1, 1, <<"r">>, "Or")
          [] first = <<"p">> -> check_keyword(src, lx, 1, 4, <<"r", "i", "n", "t">>, "Print")
          [] first = <<"r">> -> check_keyword(src, lx, 1, 5, <<"e", "t", "u", "r", "n">>, "Return")
          [] first = <<"s">> -> check_keyword(src, lx, 1, 4, <<"u", "p", "e", "r">>, "Super")
          [] first = <<"t">> /\ long ->
                CASE second = <<"h">> -> check_keyword(src, lx, 2, 2, <<"i", "s">>, "This")
                  [] second = <<"r">> -> check_keyword(src, lx, 2, 2, <<"u", "e">>, "True")
                  [] OTHER -> Returned(lx, make_token(src, lx, "Identifier"))
          [] first = <<"v">> -> check_keyword(src, lx, 1, 2, <<"a", "r">>, "Var")
          [] first = <<"w">> -> check_keyword(src, lx, 1, 4, <<"h", "i", "l", "e">>, "While")
          [] OTHER -> Returned(lx, make_token(src, lx, "Identifier"))

identifier_token(src, lx0) == identifier_type(src, reset_peek(identifier_loop(src, lx0)))

\* skip_comment: while !is_at_end, peek; a newline ends the loop, anything
\* else (None included) advances
RECURSIVE skip_comment_loop(_, _)
skip_comment_loop(src, lx) ==
    IF is_at_end(src, lx) THEN lx
    ELSE LET p == peek(src, lx) IN
         IF p.ch = "\n" THEN p.lx ELSE skip_comment_loop(src, advance(p.lx))

skip_comment(src, lx) == reset_peek(skip_comment_loop(src, lx))

\* skip_whitespace: the lexer when the loop returns.  A turn of the loop
\* that comes back to the lexer it started from repeats for ever: diverged.
RECURSIVE skip_whitespace(_, _)
skip_whitespace(src, lx) ==
    LET p == peek(src, lx) IN
    CASE p.ch \in {" ", "\r", "\t"} -> skip_whitespace(src, advance(p.lx))
      [] p.ch = "\n" -> skip_whitespace(src, advance([p.lx EXCEPT !.line = p.lx.line + 1]))
      [] p.ch = "/" ->
            LET q == peek(src, p.lx)
                again(after) ==
                    IF after = lx THEN [diverged |-> TRUE, lx |-> lx]
                    ELSE skip_whitespace(src, after)
            IN  IF q.ch = "/" THEN again(skip_comment(src, q.lx))
                ELSE [diverged |-> FALSE, lx |-> q.lx]
      [] OTHER -> [diverged |-> FALSE, lx |-> p.lx]

\* The one- and two-character tokens of lex_token
SingleChar(c) ==
    CASE c = "(" -> "LeftParen" [] c = ")" -> "RightParen"
      [] c = "{" -> "LeftBrace" [] c = "}" -> "RightBrace"
      [] c = ";" -> "Semicolon" [] c = "," -> "Comma" [] c = "." -> "Dot"
      [] c = "-" -> "Minus" [] c = "+" -> "Plus" [] c = "/" -> "Slash"
      [] c = "*" -> "Star" [] OTHER -> None

WithEqual(c) ==
    CASE c = "!" -> <<"BangEqual", "Bang">>
      [] c = "=" -> <<"EqualEqual", "Equal">>
      [] c = "<" -> <<"LessEqual", "Less">>
      [] c = ">" -> <<"GreaterEqual", "Greater">>
      [] OTHER -> None

\* lex_token from `let c = self.advance()` on: c is the character read and
\* lx the lexer after it
token_from(src, c, lx) ==
    LET with_equal(m) ==
            Returned(m.lx, make_token(src, m.lx,
                     IF m.matched THEN WithEqual(c)[1] ELSE WithEqual(c)[2]))
    IN  CASE SingleChar(c) # None -> Returned(lx, make_token(src, lx, SingleChar(c)))
          [] WithEqual(c) # None -> with_equal(check(src, lx, "="))
          [] c = "\"" -> string_token(src, lx)
          [] c \in Digits -> number_token(src, lx)
          [] is_alphabetic(c) -> identifier_token(src, lx)
          [] OTHER -> Returned(lx, error_token(lx, "Unexpected character"))

\* lex_token after skip_whitespace: lx1 is the lexer with start = current
token_at_start(src, lx1) ==
    IF is_at_end(src, lx1) THEN Returned(lx1, make_token(src, lx1, "EOF"))
    ELSE token_from(src, advance_ch(src, lx1), advance(lx1))

lex_token(src, lx0) ==
    LET skipped(w) ==
            IF w.diverged THEN Diverged(w.lx)
            ELSE token_at_start(src, [w.lx EXCEPT !.start = w.lx.current])
    IN  skipped(skip_whitespace(src, lx0))

(***************************************************************************)
(*                              V A L U E                                  *)
(***************************************************************************)

\* enum Value.  An f64 is kept as sign s, numerator n and denominator d:
\* d > 0 is the finite value s*n/d in lowest terms (n = 0 is the zero of
\* sign s), d = 0 with n = 1 is the infinity of sign s, d = 0 with n = 0 is
\* NaN.  The arithmetic below is IEEE 754 arithmetic without rounding.
RECURSIVE Gcd(_, _)
Gcd(a, b) == IF b = 0 THEN a ELSE Gcd(b, a % b)

F64(s, n, d) ==
    IF d = 0 THEN [tag |-> "Number", s |-> IF n = 0 THEN 1 ELSE s, n |-> IF n = 0 THEN 0 ELSE 1, d |-> 0]
    ELSE [tag |-> "Number", s |-> s, n |-> n \div Gcd(n, d), d |-> d \div Gcd(n, d)]

Number(k) == IF k < 0 THEN F64(-1, -k, 1) ELSE F64(1, k, 1)
Bool(b) == [tag |-> "Bool", b |-> b]
Nil == [tag |-> "Nil"]
String(chars) == [tag |-> "Obj", string |-> chars]

NaN == F64(1, 0, 0)
IsNaN(x) == x.d = 0 /\ x.n = 0
IsInf(x) == x.d = 0 /\ x.n = 1
IsZero(x) == x.d # 0 /\ x.n = 0

\* std::ops::Neg::neg
f64_neg(x) == IF IsNaN(x) THEN x ELSE [x EXCEPT !.s = -x.s]

\* lhs + rhs
f64_add(x, y) ==
    CASE IsNaN(x) \/ IsNaN(y) -> NaN
      [] IsInf(x) /\ IsInf(y) -> IF x.s = y.s THEN x ELSE NaN
      [] IsInf(x) -> x
      [] IsInf(y) -> y
      [] OTHER ->
            LET t == (x.s * x.n * y.d) + (y.s * y.n * x.d) IN
            IF t = 0 THEN F64(IF x.s = -1 /\ y.s = -1 THEN -1 ELSE 1, 0, 1)
            ELSE IF t < 0 THEN F64(-1, -t, x.d * y.d)
            ELSE F64(1, t, x.d * y.d)

\* std::ops::Sub::sub
f64_sub(x, y) == f64_add(x, f64_neg(y))

\* std::ops::Mul::mul
f64_mul(x, y) ==
    CASE IsNaN(x) \/ IsNaN(y) -> NaN
      [] (IsInf(x) /\ IsZero(y)) \/ (IsZero(x) /\ IsInf(y)) -> NaN
      [] IsInf(x) \/ IsInf(y) -> F64(x.s * y.s, 1, 0)
      [] OTHER -> F64(x.s * y.s, x.n * y.n, x.d * y.d)

\* std::ops::Div::div
f64_div(x, y) ==
    CASE IsNaN(x) \/ IsNaN(y) -> NaN
      [] (IsInf(x) /\ IsInf(y)) \/ (IsZero(x) /\ IsZero(y)) -> NaN
      [] IsInf(x) \/ IsZero(y) -> F64(x.s * y.s, 1, 0)
      [] IsInf(y) -> F64(x.s * y.s, 0, 1)
      [] OTHER -> F64(x.s * y.s, x.n * y.d, x.d * y.n)

\* PartialOrd::lt, PartialOrd::gt and == on f64
f64_lt(x, y) ==
    CASE IsNaN(x) \/ IsNaN(y) -> FALSE
      [] IsInf(x) -> x.s = -1 /\ ~(IsInf(y) /\ y.s = -1)
      [] IsInf(y) -> y.s = 1
      [] OTHER -> x.s * x.n * y.d < y.s * y.n * x.d
f64_gt(x, y) == f64_lt(y, x)
f64_eq(x, y) ==
    CASE IsNaN(x) \/ IsNaN(y) -> FALSE
      [] IsZero(x) /\ IsZero(y) -> TRUE
      [] OTHER -> x.s = y.s /\ x.n = y.n /\ x.d = y.d

\* str::parse::<f64> on a Number lexeme: digits, or digits '.' digits
DigitVal(c) == CHOOSE k \in 0..9 : Code(c) = 48 + k

RECURSIVE ParseDigits(_, _, _, _, _)
ParseDigits(lexeme, i, n, d, frac) ==
    IF i > Len(lexeme) THEN F64(1, n, d)
    ELSE IF lexeme[i] = "." THEN ParseDigits(lexeme, i + 1, n, d, TRUE)
    ELSE ParseDigits(lexeme, i + 1, n * 10 + DigitVal(lexeme[i]),
                     IF frac THEN d * 10 ELSE d, frac)

parse_f64(lexeme) == ParseDigits(lexeme, 1, 0, 1, FALSE)

(***************************************************************************)
(*                            O P C O D E                                  *)
(***************************************************************************)
OpReturn == 0
OpConstant == 1
OpNil == 2
OpTrue == 3
OpFalse == 4
OpNeg == 5
OpNot == 6
OpAdd == 7
OpSub == 8
OpMul == 9
OpDiv == 10
OpEqual == 11
OpGreater == 12
OpLess == 13

(***************************************************************************)
(*                                V M                                      *)
(***************************************************************************)

reset_keeps_vm == [ip |-> ip, stack |-> stack]

\* VM::reset
reset == [ip |-> 0, stack |-> <<>>]

\* One turn of the loop of interpret_chunk on the VM (ip, stack): the VM
\* after it, and how it went on: "next" (the loop continues), "Ok" and
\* "RuntimeError" (the call returns), "panic" (an index out of bounds).
\* out is the value println! reports, err the message runtime_error reports
\* with its line.
Turn(how, new_ip, new_stack, out, err) ==
    [how |-> how, ip |-> new_ip, stack |-> new_stack, out |-> out, err |-> err]

Top(stk) == stk[Len(stk)]
Pop(stk) == SubSeq(stk, 1, Len(stk) - 1)

\* runtime_error: report the message and the line of ip, then reset
runtime_error(ch, at_ip, message) ==
    Turn("RuntimeError", reset.ip, reset.stack, <<>>,
         <<[message |-> message, line |-> line_at(ch, at_ip)]>>)

\* `self.stack.pop().unwrap()` in place of pop()?: the empty stack panics
PopUnwrapped(at_ip, stk) == Turn("panic", at_ip, stk, <<>>, <<>>)

\* pop()? on an empty stack: Err(RuntimeError) leaves the function at once;
\* ip is not assigned and nothing is reported
PopFailed(at_ip, stk) == Turn("RuntimeError", at_ip, stk, <<>>, <<>>)

unary_op(ch, at_ip, stk) ==
    IF Len(stk) = 0 THEN PopFailed(at_ip, stk)
    ELSE IF Top(stk).tag = "Number"
         THEN Turn("next", at_ip + 1, Append(Pop(stk), f64_neg(Top(stk))), <<>>, <<>>)
         ELSE runtime_error(ch, at_ip, "Operand must be a number")

\* the two pops of binary_op, add, eq and cmp: rhs first, then lhs
TwoPops(stk) ==
    IF Len(stk) = 0 THEN [ok |-> FALSE, stack |-> stk]
    ELSE IF Len(stk) = 1 THEN [ok |-> FALSE, stack |-> Pop(stk)]
    ELSE [ok |-> TRUE, stack |-> Pop(Pop(stk)), rhs |-> Top(stk), lhs |-> Top(Pop(stk))]

\* binary_op taking the value popped first as the left operand
binary_op_right_first(ch, at_ip, stk, op) ==
    LET p == TwoPops(stk) IN
    IF ~p.ok THEN PopFailed(at_ip, p.stack)
    ELSE IF p.rhs.tag = "Number" /\ p.lhs.tag = "Number"
         THEN LET r == CASE op = OpSub -> f64_sub(p.rhs, p.lhs)
                         [] op = OpMul -> f64_mul(p.rhs, p.lhs)
                         [] op = OpDiv -> f64_div(p.rhs, p.lhs)
              IN  Turn("next", at_ip + 1, Append(p.stack, r), <<>>, <<>>)
         ELSE runtime_error(ch, at_ip, "Operands must be numbers")

binary_op(ch, at_ip, stk, op) ==
    LET p == TwoPops(stk) IN
    IF ~p.ok THEN PopFailed(at_ip, p.stack)
    ELSE IF p.rhs.tag = "Number" /\ p.lhs.tag = "Number"
         THEN LET r == CASE op = OpSub -> f64_sub(p.lhs, p.rhs)
                         [] op = OpMul -> f64_mul(p.lhs, p.rhs)
                         [] op = OpDiv -> f64_div(p.lhs, p.rhs)
              IN  Turn("next", at_ip + 1, Append(p.stack, r), <<>>, <<>>)
         ELSE runtime_error(ch, at_ip, "Operands must be numbers")

add(ch, at_ip, stk) ==
    LET p == TwoPops(stk) IN
    IF ~p.ok THEN PopFailed(at_ip, p.stack)
    ELSE IF p.rhs.tag = "Number" /\ p.lhs.tag = "Number"
         THEN Turn("next", at_ip + 1, Append(p.stack, f64_add(p.lhs, p.rhs)), <<>>, <<>>)
         ELSE IF p.rhs.tag = "Obj" /\ p.lhs.tag = "Obj"
         THEN Turn("next", at_ip + 1,
                   Append(p.stack, String(p.lhs.string \o p.rhs.string)), <<>>, <<>>)
         ELSE runtime_error(ch, at_ip, "Operands must be two numbers or two strings")

eq_across_variants(ch, at_ip, stk) ==
    LET p == TwoPops(stk) IN
    IF ~p.ok THEN PopFailed(at_ip, p.stack)
    ELSE LET r == CASE p.rhs.tag = "Obj" /\ p.lhs.tag = "Obj" -> p.rhs.string = p.lhs.string
                    [] p.rhs.tag = "Number" /\ p.lhs.tag = "Number" -> f64_eq(p.rhs, p.lhs)
                    [] p.rhs.tag = "Bool" /\ p.lhs.tag = "Bool" -> p.rhs.b = p.lhs.b
                    [] p.rhs.tag = "Nil" /\ p.lhs.tag = "Nil" -> TRUE
                    [] OTHER -> p.rhs.tag = "Nil" \/ p.lhs.tag = "Nil"
         IN  Turn("next", at_ip + 1, Append(p.stack, Bool(r)), <<>>, <<>>)

eq(ch, at_ip, stk) ==
    LET p == TwoPops(stk) IN
    IF ~p.ok THEN PopFailed(at_ip, p.stack)
    ELSE LET r == CASE p.rhs.tag = "Obj" /\ p.lhs.tag = "Obj" -> p.rhs.string = p.lhs.string
                    [] p.rhs.tag = "Number" /\ p.lhs.tag = "Number" -> f64_eq(p.rhs, p.lhs)
                    [] p.rhs.tag = "Bool" /\ p.lhs.tag = "Bool" -> p.rhs.b = p.lhs.b
                    [] p.rhs.tag = "Nil" /\ p.lhs.tag = "Nil" -> TRUE
                    [] OTHER -> FALSE
         IN  Turn("next", at_ip + 1, Append(p.stack, Bool(r)), <<>>, <<>>)

cmp_any_operands(ch, at_ip, stk, op) ==
    LET p == TwoPops(stk) IN
    IF ~p.ok THEN PopFailed(at_ip, p.stack)
    ELSE IF p.rhs.tag = "Number" /\ p.lhs.tag = "Number"
         THEN LET r == IF op = OpGreater THEN f64_gt(p.lhs, p.rhs) ELSE f64_lt(p.lhs, p.rhs)
              IN  Turn("next", at_ip + 1, Append(p.stack, Bool(r)), <<>>, <<>>)
         ELSE Turn("next", at_ip + 1, Append(p.stack, Bool(FALSE)), <<>>, <<>>)

cmp(ch, at_ip, stk, op) ==
    LET p == TwoPops(stk) IN
    IF ~p.ok THEN PopFailed(at_ip, p.stack)
    ELSE IF p.rhs.tag = "Number" /\ p.lhs.tag = "Number"
         THEN LET r == IF op = OpGreater THEN f64_gt(p.lhs, p.rhs) ELSE f64_lt(p.lhs, p.rhs)
              IN  Turn("next", at_ip + 1, Append(p.stack, Bool(r)), <<>>, <<>>)
         ELSE runtime_error(ch, at_ip, "Operands must be numbers")

is_falsey(value) == value.tag = "Nil" \/ (value.tag = "Bool" /\ value.b = FALSE)

turn(ch, at_ip, stk) ==
    IF at_ip >= Len(ch.code) THEN Turn("panic", at_ip, stk, <<>>, <<>>)
    ELSE LET op == ch.code[at_ip + 1] IN
    CASE op = OpReturn ->
            IF Len(stk) = 0 THEN PopFailed(at_ip, stk)
            ELSE Turn("Ok", at_ip, Pop(stk), <<Top(stk)>>, <<>>)
      [] op = OpConstant ->
            IF at_ip + 1 >= Len(ch.code) THEN Turn("panic", at_ip, stk, <<>>, <<>>)
            ELSE LET addr == ch.code[at_ip + 2] IN
                 IF addr >= Len(ch.constants) THEN Turn("panic", at_ip, stk, <<>>, <<>>)
                 ELSE Turn("next", at_ip + 2, Append(stk, ch.constants[addr + 1]), <<>>, <<>>)
      [] op = OpNil -> Turn("next", at_ip + 1, Append(stk, Nil), <<>>, <<>>)
      [] op = OpTrue -> Turn("next", at_ip + 1, Append(stk, Bool(TRUE)), <<>>, <<>>)
      [] op = OpFalse -> Turn("next", at_ip + 1, Append(stk, Bool(FALSE)), <<>>, <<>>)
      [] op = OpNeg -> unary_op(ch, at_ip, stk)
      [] op = OpNot ->
            IF Len(stk) = 0 THEN PopFailed(at_ip, stk)
            ELSE Turn("next", at_ip + 1, Append(Pop(stk), Bool(is_falsey(Top(stk)))), <<>>, <<>>)
      [] op = OpAdd -> add(ch, at_ip, stk)
      [] op \in {OpSub, OpMul, OpDiv} -> binary_op(ch, at_ip, stk, op)
      [] op = OpEqual -> eq(ch, at_ip, stk)
      [] op \in {OpGreater, OpLess} -> cmp(ch, at_ip, stk, op)
      [] OTHER -> Turn("RuntimeError", at_ip, stk, <<>>, <<>>)

\* interpret_chunk: the loop, from the VM (ip, stack) the call finds.  Every
\* turn that continues moves ip forward, so the loop ends.  turns counts the
\* instructions executed.
RECURSIVE interpret_loop(_, _, _, _)
interpret_loop(ch, at_ip, stk, turns) ==
    LET after(t) ==
            IF t.how = "next" THEN interpret_loop(ch, t.ip, t.stack, turns + 1)
            ELSE [result |-> t.how, ip |-> t.ip, stack |-> t.stack, out |-> t.out,
                  err |-> t.err, turns |-> turns + 1]
    IN  after(turn(ch, at_ip, stk))

interpret_chunk(ch, at_ip, stk) == interpret_loop(ch, at_ip, stk, 0)

(***************************************************************************)
(*                           C O M P I L E R                               *)
(***************************************************************************)

\* enum Precedence as its u8
PrecNone == 0
PrecAssignment == 1
PrecEquality == 4
PrecComparison == 5
PrecTerm == 6
PrecFactor == 7
PrecUnary == 8
PrecPrimary == 10

plus_one_same(prec) == prec

\* Precedence::plus_one: From<u8> maps everything above Primary to None
plus_one(prec) == IF prec + 1 > PrecPrimary THEN PrecNone ELSE prec + 1

Rule(prefix, infix, precedence) == [prefix |-> prefix, infix |-> infix, precedence |-> precedence]

get_parse_rule(token_type) ==
    CASE token_type = "LeftParen" -> Rule("grouping", None, PrecNone)
      [] token_type = "Bang" -> Rule("unary", None, PrecTerm)
      [] token_type = "Minus" -> Rule("unary", "binary", PrecTerm)
      [] token_type = "Plus" -> Rule(None, "binary", PrecTerm)
      [] token_type \in {"Slash", "Star"} -> Rule(None, "binary", PrecFactor)
      [] token_type \in {"EqualEqual", "BangEqual"} -> Rule(None, "binary", PrecEquality)
      [] token_type \in {"Greater", "GreaterEqual", "Less", "LessEqual"} ->
            Rule(None, "binary", PrecComparison)
      [] token_type = "Number" -> Rule("number", None, PrecNone)
      [] token_type \in {"False", "True", "Nil"} -> Rule("literal", None, PrecNone)
      [] OTHER -> Rule(None, None, PrecNone)

\* Parser::new.  outcome is "ok" while the compile runs on; a lex_token call
\* that panics or does not return ends it, and nothing runs after that.
\* diags are the diagnostics printed so far.
Parser_new ==
    [outcome |-> "ok", lx |-> Lexer_new, chunk |-> NewChunk,
     current |-> NoToken, previous |-> NoToken,
     had_error |-> FALSE, panic_mode |-> FALSE, diags |-> <<>>]

Live(ps) == ps.outcome = "ok"

\* Parser::error_at: the line printed is that of the current token
\* (self.current.line); token_line records the line of the token reported at
error_at(ps, tok, message) ==
    IF ps.panic_mode THEN ps
    ELSE [ps EXCEPT !.panic_mode = TRUE,
                    !.had_error = TRUE,
                    !.diags = Append(ps.diags,
                        [line |-> ps.current.line,
                         token_line |-> tok.line,
                         loc |-> CASE tok.token_type = "EOF" -> <<" at end">>
                                   [] tok.token_type = "Error" -> <<>>
                                   [] OTHER -> tok.lexeme,
                         message |-> message])]

error(ps, message) == error_at(ps, ps.previous, message)
error_at_current(ps, message) == error_at(ps, ps.current, message)

\* Parser::advance: the loop that reads and reports error tokens
RECURSIVE parser_advance_loop(_, _)
parser_advance_loop(src, ps) ==
    LET lexed(r) ==
            IF r.outcome # "return" THEN [ps EXCEPT !.outcome = r.outcome, !.lx = r.lx]
            ELSE IF r.token.token_type = "Error"
            THEN parser_advance_loop(src,
                    error_at_current([ps EXCEPT !.lx = r.lx, !.current = r.token],
                                     r.token.lexeme[1]))
            ELSE [ps EXCEPT !.lx = r.lx, !.current = r.token]
    IN  lexed(lex_token(src, ps.lx))

parser_advance(src, ps) ==
    IF ~Live(ps) THEN ps
    ELSE parser_advance_loop(src, [ps EXCEPT !.previous = ps.current])

consume(src, ps, token_type, message) ==
    IF ~Live(ps) THEN ps
    ELSE IF ps.current.token_type = token_type THEN parser_advance(src, ps)
    ELSE error_at_current(ps, message)

emit_byte(ps, byte) ==
    IF ~Live(ps) THEN ps
    ELSE [ps EXCEPT !.chunk = write(ps.chunk, byte, ps.previous.line)]

\* emit_constant: the operand byte is `i as u8`
emit_constant(ps, value) ==
    IF ~Live(ps) THEN ps
    ELSE LET added(a) ==
                 emit_byte([ps EXCEPT !.chunk = a.chunk], a.index % 256)
         IN  added(add_constant(emit_byte(ps, OpConstant).chunk, value))

number(ps) == emit_constant(ps, parse_f64(ps.previous.lexeme))

\* literal leaving the chunk as it is: the operator that follows finds no operand
literal_emits_nothing(ps) == ps

literal(ps) ==
    CASE ps.previous.token_type = "False" -> emit_constant(ps, Bool(FALSE))
      [] ps.previous.token_type = "True" -> emit_constant(ps, Bool(TRUE))
      [] ps.previous.token_type = "Nil" -> emit_constant(ps, Nil)
      [] OTHER -> ps

\* the opcodes Parser::binary emits for an operator token
BinaryOpcodes(op_type) ==
    CASE op_type = "Plus" -> <<OpAdd>>
      [] op_type = "Minus" -> <<OpSub>>
      [] op_type = "Star" -> <<OpMul>>
      [] op_type = "Slash" -> <<OpDiv>>
      [] op_type = "EqualEqual" -> <<OpEqual>>
      [] op_type = "BangEqual" -> <<OpEqual, OpNot>>
      [] op_type = "Greater" -> <<OpGreater>>
      [] op_type = "GreaterEqual" -> <<OpLess, OpNot>>
      [] op_type = "Less" -> <<OpLess>>
      [] op_type = "LessEqual" -> <<OpGreater, OpNot>>
      [] OTHER -> <<>>

\* the opcode Parser::unary emits
UnaryOpcodes(op_type) ==
    CASE op_type = "Minus" -> <<OpNeg>>
      [] op_type = "Bang" -> <<OpNot>>
      [] OTHER -> <<>>

RECURSIVE emit_bytes(_, _)
emit_bytes(ps, bytes) ==
    IF bytes = <<>> THEN ps ELSE emit_bytes(emit_byte(ps, Head(bytes)), Tail(bytes))

RECURSIVE parse_precedence(_, _, _)
RECURSIVE parse_infix(_, _, _)
RECURSIVE prefix_fn(_, _, _)

expression(src, ps) == parse_precedence(src, ps, PrecAssignment)

grouping(src, ps) ==
    consume(src, expression(src, ps), "RightParen", "Expect ')' after expression")

unary(src, ps) ==
    LET op_type == ps.previous.token_type IN
    emit_bytes(parse_precedence(src, ps, PrecUnary), UnaryOpcodes(op_type))

\* binary with the operator emitted before the right operand is compiled
binary_operator_first(src, ps) ==
    LET op_type == ps.previous.token_type
        rule == get_parse_rule(op_type)
    IN  parse_precedence(src, emit_bytes(ps, BinaryOpcodes(op_type)), plus_one(rule.precedence))

binary(src, ps) ==
    LET op_type == ps.previous.token_type
        rule == get_parse_rule(op_type)
    IN  emit_bytes(parse_precedence(src, ps, plus_one(rule.precedence)), BinaryOpcodes(op_type))

\* the call through ParseRule.prefix
prefix_fn(src, ps, name) ==
    CASE name = "grouping" -> grouping(src, ps)
      [] name = "unary" -> unary(src, ps)
      [] name = "number" -> number(ps)
      [] name = "literal" -> literal(ps)

\* the while loop of parse_precedence
parse_infix(src, ps, prec) ==
    IF ~Live(ps) THEN ps
    ELSE IF prec <= get_parse_rule(ps.current.token_type).precedence
    THEN LET infix(a) ==
                 IF ~Live(a) THEN a
                 ELSE IF get_parse_rule(a.previous.token_type).infix # None
                 THEN parse_infix(src, binary(src, a), prec)
                 ELSE error(a, "Expect expression")
         IN  infix(parser_advance(src, ps))
    ELSE ps

parse_precedence(src, ps, prec) ==
    IF ~Live(ps) THEN ps
    ELSE LET prefix(a) ==
                 IF ~Live(a) THEN a
                 ELSE IF get_parse_rule(a.previous.token_type).prefix # None
                 THEN parse_infix(src,
                         prefix_fn(src, a, get_parse_rule(a.previous.token_type).prefix),
                         prec)
                 ELSE error(a, "Expect expression")
         IN  prefix(parser_advance(src, ps))

\* the Parser when compile has emitted Return
compile_parser(src) ==
    emit_byte(consume(src, expression(src, parser_advance(src, Parser_new)),
                      "EOF", "Expect end of expression"),
              OpReturn)

\* compile: outcome "return" with Ok(chunk) or Err(CompileError), or the
\* panic / divergence of the scanner
compile(src) ==
    LET result(ps) ==
            [outcome |-> IF Live(ps) THEN "return" ELSE ps.outcome,
             ok |-> Live(ps) /\ ~ps.had_error,
             chunk |-> IF Live(ps) /\ ~ps.had_error THEN ps.chunk ELSE NewChunk,
             had_error |-> ps.had_error,
             diags |-> ps.diags]
    IN  result(compile_parser(src))

\* interpret with `compile(source)?` moved before `self.reset()`: a failed
\* compile returns with the VM as the caller left it
interpret_compiles_first(src) ==
    LET called(c) ==
            [outcome |-> c.outcome, ok |-> c.ok, had_error |-> c.had_error,
             diags |-> c.diags]
        ran(vm, c, r) ==
            [result |-> r.result, ip |-> r.ip, stack |-> r.stack, out |-> r.out,
             err |-> r.err, turns |-> r.turns, entry |-> vm, compile |-> called(c),
             chunk |-> c.chunk]
        compiled(vm, c) ==
            IF c.outcome # "return"
            THEN [result |-> c.outcome, ip |-> vm.ip, stack |-> vm.stack, out |-> <<>>,
                  err |-> <<>>, turns |-> 0, entry |-> vm, compile |-> called(c),
                  chunk |-> c.chunk]
            ELSE IF ~c.ok
            THEN [result |-> "CompileError", ip |-> ip, stack |-> stack, out |-> <<>>,
                  err |-> <<>>, turns |-> 0, entry |-> vm, compile |-> called(c),
                  chunk |-> c.chunk]
            ELSE ran(vm, c, interpret_chunk(c.chunk, vm.ip, vm.stack))
    IN  compiled(reset, compile(src))

\* VM::interpret on the VM (ip, stack): reset, compile, interpret_chunk.
\* entry is the VM that interpret_chunk finds.
interpret(src) ==
    LET called(c) ==
            [outcome |-> c.outcome, ok |-> c.ok, had_error |-> c.had_error,
             diags |-> c.diags]
        ran(vm, c, r) ==
            [result |-> r.result, ip |-> r.ip, stack |-> r.stack, out |-> r.out,
             err |-> r.err, turns |-> r.turns, entry |-> vm, compile |-> called(c),
             chunk |-> c.chunk]
        compiled(vm, c) ==
            IF c.outcome # "return"
            THEN [result |-> c.outcome, ip |-> vm.ip, stack |-> vm.stack, out |-> <<>>,
                  err |-> <<>>, turns |-> 0, entry |-> vm, compile |-> called(c),
                  chunk |-> c.chunk]
            ELSE IF ~c.ok
            THEN [result |-> "CompileError", ip |-> vm.ip, stack |-> vm.stack, out |-> <<>>,
                  err |-> <<>>, turns |-> 0, entry |-> vm, compile |-> called(c),
                  chunk |-> c.chunk]
            ELSE ran(vm, c, interpret_chunk(c.chunk, vm.ip, vm.stack))
    IN  compiled(reset, compile(src))

(***************************************************************************)
(* Components at rest: the values the variables of a component keep in the *)
(* specifications of the other components.                                 *)
(***************************************************************************)
NoCompile == [outcome |-> "none", ok |-> FALSE, had_error |-> FALSE, diags |-> <<>>]
NoVmCall ==
    [op |-> "none", result |-> "none", out |-> <<>>, err |-> <<>>, turns |-> 0,
     found |-> [ip |-> 0, stack |-> <<>>], entry |-> [ip |-> 0, stack |-> <<>>]]

NoLexCall == [outcome |-> "none", before |-> 0]

\* Table::default, Chunk::new, Lexer::new on the empty source, VM::new
NoMap == [k \in Keys |-> Absent]

(***************************************************************************)
(* Specification of the Table: any sequence of insert, get and delete.     *)
(***************************************************************************)
TableNext ==
    \/ \E k \in Keys, v \in Vals : Insert(k, v) /\ UNCHANGED <<chunkVars, source, lexVars, vmVars>>
    \/ \E k \in Keys : Get(k) /\ UNCHANGED <<chunkVars, source, lexVars, vmVars>>
    \/ \E k \in Keys : Delete(k) /\ UNCHANGED <<chunkVars, source, lexVars, vmVars>>

TableInit ==
    /\ entries = <<>> /\ count = 0 /\ tmodel = NoMap /\ tcall = NoCall
    /\ chunk = NewChunk /\ written = <<>>
    /\ source = <<>>
    /\ lexer = Lexer_new /\ token = NoToken /\ lexcall = NoLexCall
    /\ ccall = NoCompile /\ ip = 0 /\ stack = <<>> /\ vmcall = NoVmCall

TableSpec == TableInit /\ [][TableNext]_vars

(***************************************************************************)
(* Specification of the Chunk: any sequence of write calls.                *)
(***************************************************************************)
ChunkNext ==
    \E byte \in 0..MaxByte, line_number \in 1..MaxLine :
        Write(byte, line_number) /\ UNCHANGED <<tableVars, source, lexVars, vmVars>>

ChunkInit ==
    /\ chunk = NewChunk /\ written = <<>>
    /\ entries = <<>> /\ count = 0 /\ tmodel = NoMap /\ tcall = NoCall
    /\ source = <<>>
    /\ lexer = Lexer_new /\ token = NoToken /\ lexcall = NoLexCall
    /\ ccall = NoCompile /\ ip = 0 /\ stack = <<>> /\ vmcall = NoVmCall

ChunkSpec == ChunkInit /\ [][ChunkNext]_vars

(***************************************************************************)
(* Specification of the Lexer: a source text and any number of lex_token   *)
(* calls on it.  A call that panics or never returns is the last one.      *)
(***************************************************************************)
\* Bounds of the Lexer model.
MaxSrcLen == 4

LexAlphabet == {"/", "\n", " ", "1", ".", "a", "\"", "="}
Strings(A, n) == UNION {[1..m -> A] : m \in 0..n}

\* identifier-shaped sources: the sixteen keywords, and lexemes that are not
\* keywords
KeywordSources ==
    {<<"a", "n", "d">>, <<"c", "l", "a", "s", "s">>, <<"e", "l", "s", "e">>,
     <<"f", "a", "l", "s", "e">>, <<"f", "o", "r">>, <<"f", "u", "n">>, <<"i", "f">>,
     <<"n", "i", "l">>, <<"o", "r">>, <<"p", "r", "i", "n", "t">>,
     <<"r", "e", "t", "u", "r", "n">>, <<"s", "u", "p", "e", "r">>,
     <<"t", "h", "i", "s">>, <<"t", "r", "u", "e">>, <<"v", "a", "r">>,
     <<"w", "h", "i", "l", "e">>, <<"n", "i", "l", "x">>,
     <<"t", "r", "u", "e", "i", "s", "h">>, <<"a", "n", "d", "y">>, <<"x">>,
     <<"f", "o", "x">>}

\* numeric literals with and without a fraction, and what may follow them
NumberSources ==
    {<<"1", ".", "5">>, <<"1", ".">>, <<"1", "2", ".", "5", "0", " ", "3">>,
     <<"1", ".", "5", ".", "2">>, <<"7", ".", ".", "5">>, <<"1", ".", "a">>,
     <<"0", ".", "5", "/", "2">>}

LexInit ==
    /\ source \in Strings(LexAlphabet, MaxSrcLen) \cup KeywordSources \cup NumberSources
    /\ lexer = Lexer_new /\ token = NoToken /\ lexcall = NoLexCall
    /\ entries = <<>> /\ count = 0 /\ tmodel = NoMap /\ tcall = NoCall
    /\ chunk = NewChunk /\ written = <<>>
    /\ ccall = NoCompile /\ ip = 0 /\ stack = <<>> /\ vmcall = NoVmCall

LexToken ==
    /\ lexcall.outcome \in {"none", "return"}
    /\ LET r == lex_token(source, lexer) IN
       /\ lexer' = r.lx
       /\ token' = r.token
       /\ lexcall' = [outcome |-> r.outcome, before |-> lexer.current]
    /\ UNCHANGED source

LexNext == LexToken /\ UNCHANGED <<tableVars, chunkVars, vmVars>>

LexSpec == LexInit /\ [][LexNext]_vars

(***************************************************************************)
(* Specification of compile and interpret as functions of the source: a    *)
(* source text and VM::new().interpret(source), which calls                *)
(* compile(source).  A call that panics or never returns is the last one.  *)
(***************************************************************************)
\* Bounds of the expression model.
MaxExprLen == 5

ExprAlphabet == {"2", "+", "-", "*", "/", "(", ")"}

\* the examples of the specification, and longer expressions
Chars(str) ==
    CASE str = "1 + 2 * 3" -> <<"1", " ", "+", " ", "2", " ", "*", " ", "3">>
      [] str = "(1 + 2) * 3" -> <<"(", "1", " ", "+", " ", "2", ")", " ", "*", " ", "3">>
      [] str = "-2 * 3" -> <<"-", "2", " ", "*", " ", "3">>
      [] str = "7 - 2 - 3" -> <<"7", " ", "-", " ", "2", " ", "-", " ", "3">>
      [] str = "8 / 4 / 2" -> <<"8", " ", "/", " ", "4", " ", "/", " ", "2">>
      [] str = "2 * (3 - 1)" -> <<"2", " ", "*", " ", "(", "3", " ", "-", " ", "1", ")">>
      [] str = "7 - (2 - 3)" -> <<"7", " ", "-", " ", "(", "2", " ", "-", " ", "3", ")">>
      [] str = "-(1 - 2) / 4" -> <<"-", "(", "1", " ", "-", " ", "2", ")", " ", "/", " ", "4">>
      [] str = "1.5 + 2" -> <<"1", ".", "5", " ", "+", " ", "2">>
      [] str = "1 < 2" -> <<"1", " ", "<", " ", "2">>
      [] str = "2 > 1" -> <<"2", " ", ">", " ", "1">>
      [] str = "1 < 2 < 3" -> <<"1", " ", "<", " ", "2", " ", "<", " ", "3">>
      [] str = "1 == true" -> <<"1", " ", "=", "=", " ", "t", "r", "u", "e">>
      [] str = "nil == false" -> <<"n", "i", "l", " ", "=", "=", " ", "f", "a", "l", "s", "e">>
      [] str = "-true" -> <<"-", "t", "r", "u", "e">>
      [] str = "\"foo\" + \"bar\"" -> <<"\"", "f", "o", "o", "\"", " ", "+", " ", "\"", "b", "a", "r", "\"">>
      [] str = "1 + \"x\"" -> <<"1", " ", "+", " ", "\"", "x", "\"">>
      [] str = "\"abc" -> <<"\"", "a", "b", "c">>
      [] str = "a" -> <<"a">>
      [] str = "fa" -> <<"f", "a">>

ArithmeticExamples ==
    {Chars("1 + 2 * 3"), Chars("(1 + 2) * 3"), Chars("-2 * 3"), Chars("7 - 2 - 3"),
     Chars("8 / 4 / 2"), Chars("2 * (3 - 1)"), Chars("7 - (2 - 3)"), Chars("-(1 - 2) / 4"),
     Chars("1.5 + 2")}
OtherExamples ==
    {Chars("1 < 2"), Chars("1 < 2 < 3"), Chars("1 == true"), Chars("nil == false"),
     Chars("-true"), Chars("\"foo\" + \"bar\""), Chars("1 + \"x\""), Chars("\"abc"),
     Chars("a"), Chars("fa")}

\* expressions written over two lines, some of them malformed
LineExamples ==
    {<<"2", "\n", "+", " ", "2">>, <<"+", "\n", "2">>, <<"2", " ", "+", "\n">>,
     <<"2", "\n", "2">>, <<"(", "2", "\n", "2">>, <<"2", " ", "*", "\n", "*", " ", "2">>}

\* every binary operator between two operands that bind tighter than it
BinaryOperators ==
    {<<"+">>, <<"-">>, <<"*">>, <<"/">>, <<"=", "=">>, <<"!", "=">>, <<">">>, <<">", "=">>,
     <<"<">>, <<"<", "=">>}
BinaryOperands == {<<"1">>, <<"-", "2">>, <<"(", "1", "+", "2", ")">>, <<"n", "i", "l">>}
BinarySource(lhs, op, rhs) == lhs \o <<" ">> \o op \o <<" ">> \o rhs
BinaryExamples ==
    {BinarySource(lhs, op, rhs) : lhs \in BinaryOperands, op \in BinaryOperators,
                                  rhs \in BinaryOperands}

ExprSources ==
    Strings(ExprAlphabet, MaxExprLen) \cup ArithmeticExamples \cup OtherExamples
        \cup LineExamples \cup BinaryExamples

Ended(outcome) == outcome \in {"panic", "diverge"}

ExprInit ==
    /\ source \in ExprSources
    /\ entries = <<>> /\ count = 0 /\ tmodel = NoMap /\ tcall = NoCall
    /\ chunk = NewChunk /\ written = <<>>
    /\ lexer = Lexer_new /\ token = NoToken /\ lexcall = NoLexCall
    /\ ccall = NoCompile /\ ip = 0 /\ stack = <<>> /\ vmcall = NoVmCall

\* vm.interpret(src).  source, ccall and chunk become the source of the call,
\* what its compile call returned and the chunk it handed to interpret_chunk.
Interpret(src) ==
    LET returns(r) ==
            /\ ip' = r.ip
            /\ stack' = r.stack
            /\ vmcall' = [op |-> "interpret", result |-> r.result, out |-> r.out,
                          err |-> r.err, turns |-> r.turns,
                          found |-> [ip |-> ip, stack |-> stack], entry |-> r.entry]
            /\ ccall' = r.compile
            /\ chunk' = r.chunk
    IN  /\ ~Ended(vmcall.result)
        /\ returns(interpret(src))
        /\ source' = src

ExprNext == Interpret(source) /\ UNCHANGED <<tableVars, written, lexVars>>

ExprSpec == ExprInit /\ [][ExprNext]_vars

(***************************************************************************)
(* Specification of one VM used again and again: interpret on any source   *)
(* and interpret_chunk on any chunk, in any order.                         *)
(***************************************************************************)
\* Bounds of the VM model.
MaxReuseLen == 3
MaxChunkLen == 2

ReuseAlphabet == {"1", "-", "!"}
ReuseSources == Strings(ReuseAlphabet, MaxReuseLen)

\* Return, Nil, Neg and a byte that is no opcode
ChunkBytes == {OpReturn, OpNil, OpNeg, 14}

\* the chunk that write(byte, 1) builds from the bytes
RECURSIVE chunk_of(_, _)
chunk_of(bytes, ch) ==
    IF bytes = <<>> THEN ch ELSE chunk_of(Tail(bytes), write(ch, Head(bytes), 1))

HandChunks == {chunk_of(bytes, NewChunk) : bytes \in Strings(ChunkBytes, MaxChunkLen) \ {<<>>}}

VMInit ==
    /\ source = <<>>
    /\ entries = <<>> /\ count = 0 /\ tmodel = NoMap /\ tcall = NoCall
    /\ chunk = NewChunk /\ written = <<>>
    /\ lexer = Lexer_new /\ token = NoToken /\ lexcall = NoLexCall
    /\ ccall = NoCompile /\ ip = 0 /\ stack = <<>> /\ vmcall = NoVmCall

\* vm.interpret_chunk(&ch): the loop starts from the VM as it is; no source
\* and no compile call
InterpretChunk(ch) ==
    LET returns(r) ==
            /\ ip' = r.ip
            /\ stack' = r.stack
            /\ vmcall' = [op |-> "interpret_chunk", result |-> r.result, out |-> r.out,
                          err |-> r.err, turns |-> r.turns,
                          found |-> [ip |-> ip, stack |-> stack],
                          entry |-> [ip |-> ip, stack |-> stack]]
    IN  /\ ~Ended(vmcall.result)
        /\ returns(interpret_chunk(ch, ip, stack))
        /\ chunk' = ch
        /\ source' = <<>>
        /\ ccall' = NoCompile

VMNext ==
    \/ \E src \in ReuseSources : Interpret(src) /\ UNCHANGED <<tableVars, written, lexVars>>
    \/ \E ch \in HandChunks : InterpretChunk(ch) /\ UNCHANGED <<tableVars, written, lexVars>>

VMSpec == VMInit /\ [][VMNext]_vars

(***************************************************************************)
(* OperandSpec: one VM, a chunk that pushes up to MaxOperands constants    *)
(* and then executes one opcode that pops, and one of the comparison and   *)
(* equality examples; interpret_chunk on the chunk at hand (the given one, *)
(* or the one the last interpret compiled) and interpret on the source, in *)
(* any order.                                                              *)
(***************************************************************************)
MaxOperands == 2

OperandValues ==
    {Number(1), Number(2), Bool(TRUE), Bool(FALSE), Nil, String(<<>>), String(<<"a">>)}

\* for each value what emit_constant writes: Constant, then the pool index
RECURSIVE push_constants(_, _)
push_constants(ch, values) ==
    LET added(a) == write(a.chunk, a.index % 256, 1)
    IN  IF values = <<>> THEN ch
        ELSE push_constants(added(add_constant(write(ch, OpConstant, 1), Head(values))),
                            Tail(values))

\* the opcodes whose instruction pops, Return apart
PoppingOpcodes ==
    {OpNeg, OpNot, OpAdd, OpSub, OpMul, OpDiv, OpEqual, OpGreater, OpLess}

\* push the values, execute op, Return
OperandChunk(values, op) ==
    chunk_of(IF op = OpReturn THEN <<OpReturn>> ELSE <<op, OpReturn>>,
             push_constants(NewChunk, values))

OperandChunks ==
    {OperandChunk(values, op) : values \in Strings(OperandValues, MaxOperands),
                                op \in PoppingOpcodes \cup {OpReturn}}

OperandSources ==
    {Chars("1 < 2"), Chars("2 > 1"), Chars("1 < 2 < 3"), Chars("1 == true"),
     Chars("nil == false")}

OperandInit ==
    /\ source \in OperandSources
    /\ entries = <<>> /\ count = 0 /\ tmodel = NoMap /\ tcall = NoCall
    /\ chunk \in OperandChunks /\ written = <<>>
    /\ lexer = Lexer_new /\ token = NoToken /\ lexcall = NoLexCall
    /\ ccall = NoCompile /\ ip = 0 /\ stack = <<>> /\ vmcall = NoVmCall

OperandNext ==
    \/ Interpret(source) /\ UNCHANGED <<tableVars, written, lexVars>>
    \/ InterpretChunk(chunk) /\ UNCHANGED <<tableVars, written, lexVars>>

OperandSpec == OperandInit /\ [][OperandNext]_vars

(***************************************************************************)
(* Specification of a Table that grows past its first array: insert over  *)
(* enough keys to reach the load threshold of 8 slots, delete over the     *)
(* first of them, which leaves Tombstones for the growth to drop.          *)
(***************************************************************************)
\* Bounds of the growing Table.
NumGrowKeys == 6
NumDeletable == 1
MaxGrowCap == 16

GrowKeys == {AllKeys[n] : n \in 1..NumGrowKeys}
DeletableKeys == {AllKeys[n] : n \in 1..NumDeletable}

\* insert(k, v), the array growing up to MaxGrowCap slots
InsertGrowing(k, v) ==
    LET returns(r) ==
            /\ entries' = r.entries
            /\ count' = r.count
            /\ tcall' = [op |-> "insert", key |-> k, outcome |-> r.outcome, ret |-> r.ret,
                         before |-> tmodel[k]]
            /\ tmodel' = IF r.outcome = "return" THEN [tmodel EXCEPT ![k] = v] ELSE tmodel
    IN  /\ TableLive
        /\ must_grow(entries, count) => grow_capacity(Len(entries)) <= MaxGrowCap
        /\ returns(insert(entries, count, k, v))

GrowInit ==
    /\ entries = <<>> /\ count = 0 /\ tmodel = [k \in GrowKeys |-> Absent] /\ tcall = NoCall
    /\ chunk = NewChunk /\ written = <<>>
    /\ source = <<>>
    /\ lexer = Lexer_new /\ token = NoToken /\ lexcall = NoLexCall
    /\ ccall = NoCompile /\ ip = 0 /\ stack = <<>> /\ vmcall = NoVmCall

GrowNext ==
    \/ \E k \in GrowKeys, v \in Vals :
          InsertGrowing(k, v) /\ UNCHANGED <<chunkVars, source, lexVars, vmVars>>
    \/ \E k \in DeletableKeys : Delete(k) /\ UNCHANGED <<chunkVars, source, lexVars, vmVars>>

GrowSpec == GrowInit /\ [][GrowNext]_vars

(***************************************************************************)
(* Specification of the constant pool during one compile: the Parser's     *)
(* chunk across the operands of `l == l == ... == l`, each operand one     *)
(* literal token compiled by its prefix rule (number, literal), the right  *)
(* operands followed by the Equal that binary emits.                       *)
(***************************************************************************)
\* Bounds: the literals of the expression, and how many of them vary freely
\* (those after them repeat the literal before).
MaxLiterals == 257
MaxFreeLiterals == 2

\* the tokens lex_token returns for 1, 2, true, false and nil on line 1
LiteralTokens ==
    {[token_type |-> "Number", lexeme |-> <<"1">>, line |-> 1],
     [token_type |-> "Number", lexeme |-> <<"2">>, line |-> 1],
     [token_type |-> "True", lexeme |-> <<"t", "r", "u", "e">>, line |-> 1],
     [token_type |-> "False", lexeme |-> <<"f", "a", "l", "s", "e">>, line |-> 1],
     [token_type |-> "Nil", lexeme |-> <<"n", "i", "l">>, line |-> 1]}

\* parse_precedence on an operand that is one literal token tok: after
\* advance made it the previous token, the call through its prefix rule;
\* then, for the right operand of binary, the opcodes of the operator op_type
operand(ps, tok, op_type) ==
    LET advanced == [ps EXCEPT !.previous = tok] IN
    emit_bytes(prefix_fn(<<>>, advanced, get_parse_rule(tok.token_type).prefix),
               BinaryOpcodes(op_type))

\* One operand compiled into the chunk.  token is the literal token; written
\* gains the offset of the bytes emitted for it and the index that
\* add_constant returns for it.
Operand(tok, op_type) ==
    /\ Len(written) < MaxLiterals
    /\ Len(written) >= MaxFreeLiterals => tok = token
    /\ chunk' = operand([Parser_new EXCEPT !.chunk = chunk], tok, op_type).chunk
    /\ token' = tok
    /\ written' = Append(written, [token |-> tok, at |-> Len(chunk.code),
                                   index |-> Len(chunk.constants)])
    /\ UNCHANGED <<tableVars, source, lexer, lexcall, vmVars>>

PoolInit ==
    /\ chunk = NewChunk /\ written = <<>>
    /\ entries = <<>> /\ count = 0 /\ tmodel = NoMap /\ tcall = NoCall
    /\ source = <<>>
    /\ lexer = Lexer_new /\ token = NoToken /\ lexcall = NoLexCall
    /\ ccall = NoCompile /\ ip = 0 /\ stack = <<>> /\ vmcall = NoVmCall

PoolNext ==
    \/ \E tok \in LiteralTokens : written = <<>> /\ Operand(tok, "EOF")
    \/ \E tok \in LiteralTokens : written # <<>> /\ Operand(tok, "EqualEqual")

PoolSpec == PoolInit /\ [][PoolNext]_vars

(***************************************************************************)
(*                             C L A I M S                                 *)
(***************************************************************************)

\* C1: the Table behaves as a map.  In every state reached by insert and
\* delete calls, get(k) returns, for every key k, the value of the most
\* recent insert(k, v) not followed by delete(k) and None for every other
\* key; and an insert returned the value k had before (None when absent).
C1_TableIsAMap ==
    /\ \A k \in Keys : get(entries, count, k) = [outcome |-> "return", ret |-> tmodel[k]]
    /\ tcall.op = "insert" => (tcall.outcome = "return" /\ tcall.ret = tcall.before)

\* C2: every insert, get and delete call terminates: the backing array,
\* once allocated, always keeps an Empty slot, so the probe of find_entry
\* ends for every key.
C2_CallsTerminate ==
    /\ tcall.outcome = "return"
    /\ Len(entries) > 0 => \E n \in 1..Len(entries) : entries[n].tag = "Empty"

\* C8: after any sequence of write(byte, line) calls, line_at(offset) is,
\* for every offset of the code, the line passed to the write call that
\* appended the byte at that offset.
C8_LineAtReplaysWrites ==
    \A offset \in 0..(Len(chunk.code) - 1) : line_at(chunk, offset) = written[offset + 1]

\* The result, the reported value and the runtime report of interpret(src)
\* on a VM that VM::new() has just made (ip = 0, empty stack).
FreshOutcome(src) ==
    LET c == compile(src) IN
    IF c.outcome # "return" THEN <<c.outcome, <<>>, <<>>>>
    ELSE IF ~c.ok THEN <<"CompileError", <<>>, <<>>>>
    ELSE LET r == interpret_chunk(c.chunk, 0, <<>>) IN <<r.result, r.out, r.err>>

\* C3: the VM is reusable: whatever earlier calls left in the VM, the loop of
\* an interpret(source) call starts with ip = 0 and an empty stack, and the
\* call ends as interpret(source) ends on a fresh VM.
C3_InterpretStartsReset ==
    vmcall.op = "interpret" =>
        /\ vmcall.entry = [ip |-> 0, stack |-> <<>>]
        /\ <<vmcall.result, vmcall.out, vmcall.err>> = FreshOutcome(source)

\* C3 witness: an interpret call that found ip # 0 and a value on the stack
\* (left by an interpret_chunk that ended in a RuntimeError) and returned Ok.
C3_Witness ==
    /\ vmcall.op = "interpret"
    /\ vmcall.found.ip # 0 /\ vmcall.found.stack # <<>>
    /\ vmcall.result = "Ok"

\* C4: whenever a run ends in a RuntimeError (type mismatch, unrecognized
\* opcode byte, pop of an empty stack) the error has been reported once and
\* the VM is reset (ip = 0, empty stack) when the call returns.
C4_RuntimeErrorReportedAndReset ==
    vmcall.result = "RuntimeError" =>
        /\ Len(vmcall.err) = 1
        /\ ip = 0 /\ stack = <<>>

\* C5: compile returns Ok(chunk) exactly when no diagnostic was reported
\* during the compile (had_error is false); a returned chunk ends in Return;
\* with the failed flag set no chunk is returned.
C5_CompileOkIffNoError ==
    vmcall.op = "interpret" =>
        /\ (ccall.outcome = "return" /\ ccall.ok) <=> ccall.diags = <<>>
        /\ ccall.had_error <=> ccall.diags # <<>>
        /\ ccall.ok => (chunk.code # <<>> /\ chunk.code[Len(chunk.code)] = OpReturn)
        /\ ccall.had_error => (~ccall.ok /\ chunk = NewChunk)

\* The same for the compile calls that return: Ok exactly when had_error
\* is false, which is exactly when nothing was reported.
CompileReturnsOkIffNoError ==
    ccall.outcome = "return" =>
        /\ ccall.ok <=> ~ccall.had_error
        /\ ccall.had_error <=> ccall.diags # <<>>
        /\ ccall.ok => (chunk.code # <<>> /\ chunk.code[Len(chunk.code)] = OpReturn)
        /\ ccall.had_error => (chunk = NewChunk /\ vmcall.result = "CompileError")

\* The reference evaluation of C6, on the characters of the source:
\*   expr  ::= term  (('+' | '-') term)*      left-associative
\*   term  ::= unary (('*' | '/') unary)*     left-associative
\*   unary ::= '-' unary | primary
\*   primary ::= number | '(' expr ')'
\* with blanks between tokens.  Each operator returns [ok, v, i]: whether
\* the phrase was read, its value, and the position after it.
RefFail == [ok |-> FALSE, v |-> Nil, i |-> 0]

RECURSIVE RefSkip(_, _)
RefSkip(s, i) == IF i <= Len(s) /\ s[i] = " " THEN RefSkip(s, i + 1) ELSE i

RefAt(s, i, c) == i <= Len(s) /\ s[i] = c
RefDigitAt(s, i) == i <= Len(s) /\ s[i] \in Digits

RECURSIVE RefDigitsEnd(_, _)
RefDigitsEnd(s, i) == IF RefDigitAt(s, i) THEN RefDigitsEnd(s, i + 1) ELSE i

RECURSIVE RefDecimal(_, _, _)
RefDecimal(s, i, j) == IF i >= j THEN 0 ELSE RefDecimal(s, i, j - 1) * 10 + DigitVal(s[j - 1])

RECURSIVE RefPow10(_)
RefPow10(k) == IF k = 0 THEN 1 ELSE 10 * RefPow10(k - 1)

RefNumber(s, i) ==
    LET j == RefDigitsEnd(s, i)
        k == IF RefAt(s, j, ".") /\ RefDigitAt(s, j + 1) THEN RefDigitsEnd(s, j + 1) ELSE j
    IN  IF k = j THEN [ok |-> TRUE, v |-> F64(1, RefDecimal(s, i, j), 1), i |-> j]
        ELSE [ok |-> TRUE,
              v |-> F64(1, RefDecimal(s, i, j) * RefPow10(k - j - 1) + RefDecimal(s, j + 1, k),
                        RefPow10(k - j - 1)),
              i |-> k]

RECURSIVE RefExpr(_, _)
RECURSIVE RefExprRest(_, _)
RECURSIVE RefTerm(_, _)
RECURSIVE RefTermRest(_, _)
RECURSIVE RefUnary(_, _)
RECURSIVE RefPrimary(_, _)

RefPrimary(s, i0) ==
    LET i == RefSkip(s, i0) IN
    IF RefDigitAt(s, i) THEN RefNumber(s, i)
    ELSE IF RefAt(s, i, "(")
    THEN LET e == RefExpr(s, i + 1) IN
         IF e.ok /\ RefAt(s, RefSkip(s, e.i), ")")
         THEN [e EXCEPT !.i = RefSkip(s, e.i) + 1]
         ELSE RefFail
    ELSE RefFail

RefUnary(s, i0) ==
    LET i == RefSkip(s, i0) IN
    IF RefAt(s, i, "-")
    THEN LET u == RefUnary(s, i + 1) IN
         IF u.ok THEN [u EXCEPT !.v = f64_neg(u.v)] ELSE RefFail
    ELSE RefPrimary(s, i)

\* left is the phrase read so far
RefTermRest(s, left) ==
    LET i == RefSkip(s, left.i) IN
    IF RefAt(s, i, "*") \/ RefAt(s, i, "/")
    THEN LET u == RefUnary(s, i + 1) IN
         IF u.ok
         THEN RefTermRest(s, [u EXCEPT !.v = IF s[i] = "*" THEN f64_mul(left.v, u.v)
                                                           ELSE f64_div(left.v, u.v)])
         ELSE RefFail
    ELSE left

RefTerm(s, i) == LET u == RefUnary(s, i) IN IF u.ok THEN RefTermRest(s, u) ELSE RefFail

RefExprRest(s, left) ==
    LET i == RefSkip(s, left.i) IN
    IF RefAt(s, i, "+") \/ RefAt(s, i, "-")
    THEN LET t == RefTerm(s, i + 1) IN
         IF t.ok
         THEN RefExprRest(s, [t EXCEPT !.v = IF s[i] = "+" THEN f64_add(left.v, t.v)
                                                           ELSE f64_sub(left.v, t.v)])
         ELSE RefFail
    ELSE left

RefExpr(s, i) == LET t == RefTerm(s, i) IN IF t.ok THEN RefExprRest(s, t) ELSE RefFail

\* the whole source is one expression of the grammar
Reference(s) ==
    LET e == RefExpr(s, 1) IN
    IF e.ok /\ RefSkip(s, e.i) > Len(s) THEN e ELSE RefFail

\* C6: for every expression built from number literals, parentheses, unary
\* '-' and binary + - * /, interpret returns Ok and reports the value of the
\* reference evaluation (* and / bind tighter than + and -, unary '-'
\* tighter still, parentheses override, binary operators associate left).
C6_ArithmeticPrecedence ==
    (vmcall.op = "interpret" /\ Reference(source).ok) =>
        /\ vmcall.result = "Ok"
        /\ vmcall.out = <<Reference(source).v>>

\* C6 witness: `1 + 2 * 3` has been interpreted and reported 7.
C6_Witness ==
    /\ source = Chars("1 + 2 * 3")
    /\ vmcall.op = "interpret" /\ vmcall.result = "Ok"
    /\ vmcall.out = <<Number(7)>>

\* C7: a string literal is a valid operand: `"foo" + "bar"` compiles and
\* evaluates to the string foobar, and `1 + "x"` compiles and ends in a
\* RuntimeError "Operands must be two numbers or two strings".
C7_StringOperands ==
    vmcall.op = "interpret" =>
        /\ source = Chars("\"foo\" + \"bar\"") =>
              (vmcall.result = "Ok" /\ vmcall.out = <<String(<<"f", "o", "o", "b", "a", "r">>)>>)
        /\ source = Chars("1 + \"x\"") =>
              /\ vmcall.result = "RuntimeError"
              /\ Len(vmcall.err) = 1
              /\ vmcall.err[1].message = "Operands must be two numbers or two strings"

\* C9: for every source interpret returns Ok, CompileError or RuntimeError
\* and never crashes; an unterminated string gives the error token
\* "Unterminated string" and a CompileError with no bytecode executed.
C9_InterpretAlwaysReturns ==
    vmcall.op = "interpret" =>
        /\ vmcall.result \in {"Ok", "CompileError", "RuntimeError"}
        /\ source = Chars("\"abc") =>
              /\ vmcall.result = "CompileError" /\ vmcall.turns = 0
              /\ ccall.diags # <<>> /\ ccall.diags[1].message = "Unterminated string"

\* C10: lex_token terminates on every input, skipping every // comment up
\* to the next newline or the end of input (an empty comment included):
\* every call returns, and it returns EOF or has consumed a character.
C10_LexTokenTerminates ==
    /\ lexcall.outcome # "diverge"
    /\ lexcall.outcome = "return" =>
          (token.token_type = "EOF" \/ lexer.current > lexcall.before)

\* The token kind of an identifier-shaped lexeme: that of the keyword it is
\* exactly, Identifier for every other lexeme.
KeywordKind(lexeme) ==
    CASE lexeme = <<"a", "n", "d">> -> "And"
      [] lexeme = <<"c", "l", "a", "s", "s">> -> "Class"
      [] lexeme = <<"e", "l", "s", "e">> -> "Else"
      [] lexeme = <<"f", "a", "l", "s", "e">> -> "False"
      [] lexeme = <<"f", "o", "r">> -> "For"
      [] lexeme = <<"f", "u", "n">> -> "Fun"
      [] lexeme = <<"i", "f">> -> "If"
      [] lexeme = <<"n", "i", "l">> -> "Nil"
      [] lexeme = <<"o", "r">> -> "Or"
      [] lexeme = <<"p", "r", "i", "n", "t">> -> "Print"
      [] lexeme = <<"r", "e", "t", "u", "r", "n">> -> "Return"
      [] lexeme = <<"s", "u", "p", "e", "r">> -> "Super"
      [] lexeme = <<"t", "h", "i", "s">> -> "This"
      [] lexeme = <<"t", "r", "u", "e">> -> "True"
      [] lexeme = <<"v", "a", "r">> -> "Var"
      [] lexeme = <<"w", "h", "i", "l", "e">> -> "While"
      [] OTHER -> "Identifier"

KeywordKinds ==
    {"And", "Class", "Else", "False", "For", "Fun", "If", "Nil", "Or", "Print",
     "Return", "Super", "This", "True", "Var", "While"}

\* C11: an identifier-shaped lexeme gets a keyword token kind exactly when
\* the whole lexeme is one of the sixteen keywords; every other lexeme
\* (`nilx`, `trueish`) is an Identifier.
C11_KeywordIffWholeLexeme ==
    (lexcall.outcome = "return" /\ token.token_type \in KeywordKinds \cup {"Identifier"}) =>
        token.token_type = KeywordKind(token.lexeme)

TwoOperandCall(op) ==
    /\ vmcall.op = "interpret_chunk"
    /\ vmcall.found = [ip |-> 0, stack |-> <<>>]
    /\ Len(chunk.constants) = 2
    /\ chunk = OperandChunk(chunk.constants, op)

\* the operands of that call: lhs was pushed first
Lhs == chunk.constants[1]
Rhs == chunk.constants[2]

\* lhs < rhs on finite numbers
LessThan(x, y) == x.s * x.n * y.d < y.s * y.n * x.d

\* C13: Greater and Less pop two values and push a Bool only when both are
\* Numbers; with any other operand pair the run ends in a RuntimeError.
\* `1 < 2` evaluates to true and `1 < 2 < 3` is a runtime type error.
C13_CompareNeedsNumbers ==
    /\ \A op \in {OpGreater, OpLess} :
          TwoOperandCall(op) =>
              IF Lhs.tag = "Number" /\ Rhs.tag = "Number"
              THEN /\ vmcall.result = "Ok"
                   /\ vmcall.out = <<Bool(IF op = OpLess THEN LessThan(Lhs, Rhs)
                                                        ELSE LessThan(Rhs, Lhs))>>
              ELSE /\ vmcall.result = "RuntimeError"
                   /\ vmcall.out = <<>>
                   /\ vmcall.err # <<>>
                   /\ vmcall.err[1].message = "Operands must be numbers"
    /\ (vmcall.op = "interpret" /\ source \in {Chars("1 < 2"), Chars("2 > 1")}) =>
          (vmcall.result = "Ok" /\ vmcall.out = <<Bool(TRUE)>>)
    /\ (vmcall.op = "interpret" /\ source = Chars("1 < 2 < 3")) =>
          (vmcall.result = "RuntimeError" /\ vmcall.out = <<>>)

\* C13 witness: `1 < 2 < 3` has ended in the runtime type error.
C13_Witness ==
    /\ vmcall.op = "interpret" /\ source = Chars("1 < 2 < 3")
    /\ vmcall.result = "RuntimeError"
    /\ vmcall.err # <<>> /\ vmcall.err[1].message = "Operands must be numbers"

\* Less on a Bool and a Number has been executed.
CompareOperandsReached ==
    TwoOperandCall(OpLess) /\ Lhs = Bool(TRUE) /\ Rhs = Number(2)

\* C14: Equal pops two values and pushes Bool(true) exactly when both have
\* the same variant and equal payload (Nil equals only Nil); operands of
\* different variants give Bool(false) and never a runtime error.
\* `1 == true` and `nil == false` evaluate to false.
C14_EqualWithinVariant ==
    /\ TwoOperandCall(OpEqual) =>
          /\ vmcall.result = "Ok"
          /\ vmcall.err = <<>>
          /\ vmcall.out = <<Bool(Lhs.tag = Rhs.tag /\ Lhs = Rhs)>>
    /\ (vmcall.op = "interpret" /\ source \in {Chars("1 == true"), Chars("nil == false")}) =>
          (vmcall.result = "Ok" /\ vmcall.out = <<Bool(FALSE)>>)

\* C14 witness: `nil == false` has evaluated to false.
C14_Witness ==
    /\ vmcall.op = "interpret" /\ source = Chars("nil == false")
    /\ vmcall.result = "Ok" /\ vmcall.out = <<Bool(FALSE)>>

\* Equal on operands of two variants, and on two equal strings, has been
\* executed.
EqualOperandsReached ==
    /\ TwoOperandCall(OpEqual)
    /\ \/ (Lhs = String(<<>>) /\ Rhs = Nil /\ vmcall.out = <<Bool(FALSE)>>)
       \/ (Lhs = String(<<"a">>) /\ Rhs = String(<<"a">>) /\ vmcall.out = <<Bool(TRUE)>>)

\* The key has a Slot::Entry in the backing array.
InTable(ents, key) ==
    \E n \in 1..Len(ents) : ents[n].tag = "Entry" /\ ents[n].key = key

\* Two get results are the same outcome and the same Option<value>.
SameResult(a, b) == ToString(a) = ToString(b)

\* C15: delete(k) returns true exactly when k is present; it then replaces
\* the slot of k with a Tombstone (never Empty) and changes no other slot;
\* after it get(k) is absent and the get result of every other key is what
\* it was before.
C15_DeleteFrame ==
    [][tcall'.op = "delete" =>
          /\ tcall'.outcome = "return"
          /\ tcall'.ret = InTable(entries, tcall'.key)
          /\ tcall'.ret =>
                \E n \in 1..Len(entries) :
                    /\ entries[n].tag = "Entry" /\ entries[n].key = tcall'.key
                    /\ entries' = [entries EXCEPT ![n] = Tombstone]
          /\ ~tcall'.ret => entries' = entries
          /\ count' = count
          /\ SameResult(get(entries', count', tcall'.key),
                        [outcome |-> "return", ret |-> Absent])
          /\ \A k \in Keys \ {tcall'.key} :
                SameResult(get(entries', count', k), get(entries, count, k))
      ]_vars

\* C16: when compile(source) fails, interpret(source) returns CompileError
\* and executes no instruction: the VM is left reset (ip = 0, empty stack)
\* and nothing is written to the output stream.
C16_CompileErrorSkipsRun ==
    (vmcall.op = "interpret" /\ ccall.outcome = "return" /\ ~ccall.ok) =>
        /\ vmcall.result = "CompileError"
        /\ vmcall.turns = 0
        /\ ip = 0 /\ stack = <<>>
        /\ vmcall.out = <<>>

\* C16 witness: interpret of a source that does not compile, called on a VM
\* that an earlier interpret_chunk left with ip # 0 and a value on the stack.
C16_Witness ==
    /\ vmcall.op = "interpret" /\ ccall.outcome = "return" /\ ~ccall.ok
    /\ ccall.diags # <<>>
    /\ vmcall.found.ip # 0 /\ vmcall.found.stack # <<>>
    /\ vmcall.result = "CompileError"

\* The number of values an opcode pops.
Pops(op) == IF op \in {OpReturn, OpNeg, OpNot} THEN 1 ELSE 2

\* The last call was interpret_chunk, on a reset VM, of the chunk that
\* pushes fewer constants than op pops, then executes op.
UnderflowCall(op) ==
    /\ vmcall.op = "interpret_chunk"
    /\ vmcall.found = [ip |-> 0, stack |-> <<>>]
    /\ Len(chunk.constants) < Pops(op)
    /\ chunk = OperandChunk(chunk.constants, op)

\* C17: popping an empty operand stack is a defined outcome for every
\* opcode that pops (Return, Neg, Not, Add, Sub, Mul, Div, Equal, Greater,
\* Less): interpret_chunk returns Err(RuntimeError) at that instruction,
\* with nothing printed; the values that were on the stack have been popped
\* and no slot below the bottom is read (which would be a panic).
C17_UnderflowIsRuntimeError ==
    \A op \in PoppingOpcodes \cup {OpReturn} :
        UnderflowCall(op) =>
            /\ vmcall.result = "RuntimeError"
            /\ vmcall.turns = Len(chunk.constants) + 1
            /\ vmcall.out = <<>>
            /\ stack = <<>>

\* C17 witness: Add executed with one value on the stack: the value is
\* popped, the second pop fails, the call returns RuntimeError.
C17_Witness ==
    /\ UnderflowCall(OpAdd)
    /\ chunk.constants = <<Number(1)>>
    /\ vmcall.result = "RuntimeError"
    /\ stack = <<>>

\* Every popping opcode has been executed on the empty stack.
UnderflowReached(op) == UnderflowCall(op) /\ chunk.constants = <<>>

\* The sum of the run lengths of a line table (run, line, run, line, ...).
RECURSIVE SumOfRuns(_)
SumOfRuns(lines) ==
    IF Len(lines) < 2 THEN 0 ELSE lines[1] + SumOfRuns(SubSeq(lines, 3, Len(lines)))

\* C18: after any sequence of write calls the run lengths of the line table
\* sum to code.len(): every write appended one byte and added one unit of
\* run length (the table is made of whole (run, line) pairs with run >= 1).
C18_RunLengthsSumToCodeLen ==
    /\ Len(chunk.lines) % 2 = 0
    /\ \A n \in 1..Len(chunk.lines) : n % 2 = 1 => chunk.lines[n] >= 1
    /\ SumOfRuns(chunk.lines) = Len(chunk.code)
    /\ Len(chunk.code) = Len(written)

\* C18 witness: three writes, two on line 1 and one on line 2: a run that
\* was extended and a run that was started.
C18_Witness ==
    /\ written = <<1, 1, 2>>
    /\ chunk.lines = <<2, 1, 1, 2>>
    /\ Len(chunk.code) = 3

\* The operand bytes of the Constant instructions of a code sequence, in
\* order, read as the VM reads it from the offset at: a Constant opcode
\* takes the byte after it, every other opcode is one byte.  A Constant
\* opcode that is the last byte has the operand -1.
RECURSIVE ConstantOperands(_, _)
ConstantOperands(code, at) ==
    IF at > Len(code) THEN <<>>
    ELSE IF code[at] # OpConstant THEN ConstantOperands(code, at + 1)
    ELSE IF at = Len(code) THEN <<-1>>
    ELSE <<code[at + 1]>> \o ConstantOperands(code, at + 2)

\* The n-th Constant instruction was emitted when the pool held n values:
\* its operand is an index into the pool as it was at that point.
ValidOperands(operands, constants) ==
    /\ Len(operands) = Len(constants)
    /\ \A n \in 1..Len(operands) : operands[n] >= 0 /\ operands[n] < n

RECURSIVE Chain(_, _, _, _, _)
Chain(ents, key, i, first_tombstone, steps) ==
    IF steps = 0 THEN [tombstone |-> first_tombstone, empty |-> 0]
    ELSE CASE ents[i + 1].tag = "Empty" ->
                [tombstone |-> first_tombstone, empty |-> i + 1]
           [] ents[i + 1].tag = "Tombstone" ->
                Chain(ents, key, (i + 1) % Len(ents),
                      IF first_tombstone = 0 THEN i + 1 ELSE first_tombstone, steps - 1)
           [] OTHER ->
                IF ents[i + 1].key = key
                THEN [tombstone |-> first_tombstone, empty |-> 0]
                ELSE Chain(ents, key, (i + 1) % Len(ents), first_tombstone, steps - 1)

\* Where the claim places a new entry: the first Tombstone of the chain,
\* the terminating Empty slot when the chain has no Tombstone.
PlaceOf(c) == IF c.tombstone # 0 THEN c.tombstone ELSE c.empty

\* The array insert probes: the array of the table, grown first when the
\* load threshold asks for it.
ProbedArray(ents, cnt) ==
    IF must_grow(ents, cnt) THEN adjust_capacity(ents, grow_capacity(Len(ents))).entries
    ELSE ents

\* C20: when insert(k, v) does not find k on its probe chain, the new entry
\* is written into the first Tombstone seen on the chain, and into the
\* terminating Empty slot only when no Tombstone was seen; no other slot
\* changes.
C20_InsertReusesFirstTombstone ==
    [][(tcall'.op = "insert" /\ tcall'.outcome = "return" /\ ~InTable(entries, tcall'.key)) =>
          LET placed(arr, c) ==
                  /\ c.empty # 0
                  /\ entries' = [arr EXCEPT ![PlaceOf(c)] = Entry(tcall'.key, tmodel'[tcall'.key])]
              probed(arr) ==
                  placed(arr, Chain(arr, tcall'.key, hash(tcall'.key) % Len(arr), 0, Len(arr)))
          IN  probed(ProbedArray(entries, count))
      ]_vars

\* count as insert sees it when it probes: recomputed by adjust_capacity
\* when the table grows first.
ProbedCount(ents, cnt) ==
    IF must_grow(ents, cnt) THEN adjust_capacity(ents, grow_capacity(Len(ents))).count
    ELSE cnt

\* The slot that holds the entry of key.
SlotOf(ents, key) ==
    CHOOSE n \in 1..Len(ents) : ents[n].tag = "Entry" /\ ents[n].key = key

\* C21: insert increments count only when the slot it writes the entry into
\* was Empty before the write; it does not increment count when it
\* overwrites a matching key or writes into a Tombstone slot; delete never
\* changes count.
C21_CountOnlyOnEmpty ==
    [][/\ tcall'.op = "delete" => count' = count
       /\ (tcall'.op = "insert" /\ tcall'.outcome = "return") =>
             LET counted(before, cnt) ==
                     /\ count' \in {cnt, cnt + 1}
                     /\ count' = cnt + 1 => before.tag = "Empty"
                     /\ before.tag \in {"Entry", "Tombstone"} => count' = cnt
             IN  counted(ProbedArray(entries, count)[SlotOf(entries', tcall'.key)],
                         ProbedCount(entries, count))
      ]_vars

\* C21 witness: an insert that overwrote the value of a key that was
\* present, in a table whose count is still 2 after three inserts.
C21_Witness ==
    /\ tcall.op = "insert" /\ tcall.outcome = "return"
    /\ ~SameResult(tcall.before, Absent)
    /\ ~SameResult(tcall.before, tmodel[tcall.key])
    /\ count = 2
    /\ \A k \in Keys : InTable(entries, k) <=> ~SameResult(tmodel[k], Absent)

\* An insert into an Empty slot that incremented count, after a delete that
\* left count alone.
CountedInsertReached ==
    /\ tcall.op = "insert" /\ tcall.outcome = "return"
    /\ SameResult(tcall.before, Absent)
    /\ count = 2
    /\ \E n \in 1..Len(entries) : entries[n].tag = "Tombstone"

\* The slots of the array that are not Empty (Occupied or Tombstone).
NonEmptySlots(ents) == {n \in 1..Len(ents) : ents[n].tag # "Empty"}

\* C22: in every reachable Table state count is the number of non-Empty
\* slots (Occupied plus Tombstone); after every insert count is at most
\* 0.75 * capacity, and an allocated array keeps at least one Empty slot.
C22_CountIsNonEmptySlots ==
    /\ count = Cardinality(NonEmptySlots(entries))
    /\ (tcall.op = "insert" /\ tcall.outcome = "return") => 4 * count <= 3 * Len(entries)
    /\ Len(entries) > 0 => Cardinality(NonEmptySlots(entries)) < Len(entries)

\* The keys that have a Slot::Entry in the array.
LiveKeys(ents) == {ents[n].key : n \in {m \in 1..Len(ents) : ents[m].tag = "Entry"}}

\* The value stored with a live key.
ValueOf(ents, key) == ents[SlotOf(ents, key)].value

\* C23: insert grows the table before inserting exactly when
\* count + 1 > 0.75 * capacity; the capacity goes 0, 8, 16, ... (doubling
\* from 8); right after a growth the array holds every entry that was live,
\* with its value (and the inserted key with the new value), no Tombstone,
\* and count is the number of live entries.
C23_GrowthRehashesLiveEntries ==
    [][(tcall'.op = "insert" /\ tcall'.outcome = "return") =>
          /\ Len(entries') # Len(entries) <=> 4 * (count + 1) > 3 * Len(entries)
          /\ Len(entries') # Len(entries) =>
                /\ Len(entries') = IF Len(entries) = 0 THEN 8 ELSE 2 * Len(entries)
                /\ \A n \in 1..Len(entries') : entries'[n].tag # "Tombstone"
                /\ LiveKeys(entries') = LiveKeys(entries) \cup {tcall'.key}
                /\ \A k \in LiveKeys(entries) \ {tcall'.key} :
                      ValueOf(entries', k) = ValueOf(entries, k)
                /\ ValueOf(entries', tcall'.key) = tmodel'[tcall'.key]
                /\ count' = Cardinality(LiveKeys(entries'))
                /\ Cardinality(NonEmptySlots(entries')) = count'
      ]_vars

\* C23 witness: an array of 16 slots right after the growth from 8: count
\* reached 6 in the old array, and fewer than 6 entries were live, the rest
\* being Tombstones that the growth dropped.
C23_Witness ==
    /\ tcall.op = "insert" /\ tcall.outcome = "return"
    /\ Len(entries) = 16
    /\ count < 6
    /\ count = Cardinality(LiveKeys(entries))
    /\ \A n \in 1..Len(entries) : entries[n].tag # "Tombstone"

\* C24: get and delete never probe a zero-sized backing array: capacity = 0
\* implies count = 0, and with count = 0 get returns absent and delete
\* returns false without touching the array; count = 0 never holds while an
\* entry is stored, so the shortcut hides no present key.
C24_NoProbeOfEmptyArray ==
    /\ Len(entries) = 0 => count = 0
    /\ count = 0 =>
          /\ LiveKeys(entries) = {}
          /\ \A k \in Keys :
                /\ get(entries, count, k) = [outcome |-> "return", ret |-> Absent]
                /\ delete(entries, count, k) =
                      [outcome |-> "return", entries |-> entries, ret |-> FALSE]
    /\ tcall.op \in {"get", "delete"} => tcall.outcome # "panic"

\* C24 witness: get called on the table Table::default() made, before any
\* insert: the array has no slot and the call returned absent.
C24_Witness ==
    /\ tcall.op = "get" /\ tcall.outcome = "return"
    /\ Len(entries) = 0 /\ count = 0
    /\ SameResult(tcall.ret, Absent)

\* delete called on the table Table::default() made returned false.
DeleteOfNewTableReached ==
    /\ tcall.op = "delete" /\ tcall.outcome = "return"
    /\ Len(entries) = 0 /\ count = 0
    /\ tcall.ret = FALSE

\* The parser when compile has parsed the expression of the source and is
\* about to consume the EOF token.
BeforeEof(src) == expression(src, parser_advance(src, Parser_new))

\* C25: panic mode lasts only until the next successful token consumption.
\* When the final consume(EOF) of a compile succeeds, the flag is clear
\* after it whatever was reported before; and in `(+))`, where the `)` of
\* the group is consumed after the first diagnostic, the second `)` is
\* reported as well.
C25_PanicModeEndsAtConsumption ==
    vmcall.op = "interpret" =>
        LET consumed(ps) ==
                (Live(ps) /\ ps.current.token_type = "EOF") =>
                    ~consume(source, ps, "EOF", "Expect end of expression").panic_mode
        IN  /\ consumed(BeforeEof(source))
            /\ source = <<"(", "+", ")", ")">> =>
                  /\ Len(ccall.diags) = 2
                  /\ ccall.diags[1].message = "Expect expression"
                  /\ ccall.diags[2].message = "Expect end of expression"

\* C26: every compile diagnostic carries the line of the token it is
\* reported at: the previous token for an absent prefix or infix rule
\* ("Expect expression"), also when the current token is on a later line.
C26_DiagnosticLineOfToken ==
    vmcall.op = "interpret" =>
        \A n \in 1..Len(ccall.diags) : ccall.diags[n].line = ccall.diags[n].token_line

\* The opcodes the claim gives each binary operator.
ClaimedOpcodes(op) ==
    CASE op = <<"+">> -> <<OpAdd>>
      [] op = <<"-">> -> <<OpSub>>
      [] op = <<"*">> -> <<OpMul>>
      [] op = <<"/">> -> <<OpDiv>>
      [] op = <<"=", "=">> -> <<OpEqual>>
      [] op = <<">">> -> <<OpGreater>>
      [] op = <<"<">> -> <<OpLess>>
      [] op = <<"!", "=">> -> <<OpEqual, OpNot>>
      [] op = <<">", "=">> -> <<OpLess, OpNot>>
      [] op = <<"<", "=">> -> <<OpGreater, OpNot>>

\* The code of a compiled expression without its final Return.
CodeOf(ch) == SubSeq(ch.code, 1, Len(ch.code) - 1)

\* A code sequence with the operand of every Constant instruction raised by
\* `by`: the code of an operand compiled after `by` constants.
RECURSIVE ShiftOperands(_, _)
ShiftOperands(code, by) ==
    IF code = <<>> THEN <<>>
    ELSE IF Head(code) = OpConstant /\ Len(code) >= 2
         THEN <<OpConstant, code[2] + by>> \o ShiftOperands(SubSeq(code, 3, Len(code)), by)
         ELSE <<Head(code)>> \o ShiftOperands(Tail(code), by)

\* C27: for a binary operator the compiler emits the code of the left
\* operand, then the code of the right operand, then the opcode(s) of the
\* operator: one for + - * / == > <, two for the derived comparisons
\* (!= is Equal Not, >= is Less Not, <= is Greater Not).
C27_BinaryEmitsOperandsThenOperator ==
    \A lhs \in BinaryOperands, op \in BinaryOperators, rhs \in BinaryOperands :
        (vmcall.op = "interpret" /\ source = BinarySource(lhs, op, rhs)) =>
            LET joined(l, r) ==
                    /\ chunk.code = CodeOf(l) \o ShiftOperands(CodeOf(r), Len(l.constants))
                                        \o ClaimedOpcodes(op) \o <<OpReturn>>
                    /\ chunk.constants = l.constants \o r.constants
            IN  /\ ccall.outcome = "return" /\ ccall.ok
                /\ joined(compile(lhs).chunk, compile(rhs).chunk)

\* C27 witness: `(1 + 2) >= -2` compiled to the code of (1 + 2), the code
\* of -2, then Less and Not.
C27_Witness ==
    /\ vmcall.op = "interpret" /\ ccall.ok
    /\ source = BinarySource(<<"(", "1", "+", "2", ")">>, <<">", "=">>, <<"-", "2">>)
    /\ chunk.code = <<OpConstant, 0, OpConstant, 1, OpAdd, OpConstant, 2, OpNeg,
                      OpLess, OpNot, OpReturn>>

\* The finite Number r is the quotient num / den (den > 0).
IsQuotient(r, num, den) ==
    r.tag = "Number" /\ r.d # 0 /\ r.s * r.n * den = num * r.d

\* The signed numerator of a finite Number over its denominator d.
Num(x) == x.s * x.n

\* C28: Sub, Mul and Div pop the right operand first and the left operand
\* second and push left op right, the left operand being the one pushed
\* (written) first; when either value is not a Number they push nothing and
\* the run ends in RuntimeError "Operands must be numbers".
C28_ArithmeticLeftOpRight ==
    \A op \in {OpSub, OpMul, OpDiv} :
        TwoOperandCall(op) =>
            IF Lhs.tag = "Number" /\ Rhs.tag = "Number"
            THEN /\ vmcall.result = "Ok"
                 /\ Len(vmcall.out) = 1
                 /\ CASE op = OpSub ->
                            IsQuotient(vmcall.out[1], Num(Lhs) * Rhs.d - Num(Rhs) * Lhs.d,
                                       Lhs.d * Rhs.d)
                      [] op = OpMul ->
                            IsQuotient(vmcall.out[1], Num(Lhs) * Num(Rhs), Lhs.d * Rhs.d)
                      [] op = OpDiv ->
                            IsQuotient(vmcall.out[1], Rhs.s * Num(Lhs) * Rhs.d, Lhs.d * Rhs.n)
            ELSE /\ vmcall.result = "RuntimeError"
                 /\ vmcall.out = <<>>
                 /\ stack = <<>>
                 /\ vmcall.err # <<>>
                 /\ vmcall.err[1].message = "Operands must be numbers"

\* C28 witness: Sub executed after the constants 1 and 2 printed -1.
C28_Witness ==
    /\ TwoOperandCall(OpSub) /\ Lhs = Number(1) /\ Rhs = Number(2)
    /\ vmcall.result = "Ok"
    /\ vmcall.out = <<Number(-1)>>

\* Div executed after 1 and 2 printed 0.5; Mul on a string and a number
\* ended in a RuntimeError.
DivideReached ==
    TwoOperandCall(OpDiv) /\ Lhs = Number(1) /\ Rhs = Number(2) /\ vmcall.out = <<F64(1, 1, 2)>>
MultiplyStringReached ==
    TwoOperandCall(OpMul) /\ Lhs = String(<<"a">>) /\ Rhs = Number(2)
        /\ vmcall.result = "RuntimeError"

\* The offset at which the run of digits that starts at the offset `at`
\* ends.
RECURSIVE DigitsEnd(_, _)
DigitsEnd(src, at) ==
    IF at < Len(src) /\ src[at + 1] \in Digits THEN DigitsEnd(src, at + 1) ELSE at

\* The offset at which the numeric literal that starts at `start` ends:
\* digits, and '.' with the digits after it when there is at least one.
NumberEnd(src, start) ==
    LET after(i) ==
            IF i + 1 < Len(src) /\ src[i + 1] = "." /\ src[i + 2] \in Digits
            THEN DigitsEnd(src, i + 1)
            ELSE i
    IN  after(DigitsEnd(src, start))

FractionReached ==
    /\ source = <<"1", ".", "5">> /\ token.token_type = "Number"
    /\ token.lexeme = <<"1", ".", "5">> /\ lexer.current = 3
DotAfterNumberReached ==
    source = <<"1", ".">> /\ token.token_type = "Dot" /\ lexer.current = 2

\* C30 (as stated): every chunk that compile returns runs to Return without
\* popping an empty stack, Return finds exactly one value on the stack, and the
\* stack is empty once Return has popped and reported it.
C30_CompiledChunkReachesReturn ==
    (vmcall.op = "interpret" /\ ccall.outcome = "return" /\ ccall.ok)
        => /\ vmcall.result = "Ok"
           /\ Len(vmcall.out) = 1
           /\ stack = <<>>

\* C30 (amended): a chunk that compile returns, run from the reset state, never
\* pops an empty stack and never reads past its code; it either reaches Return
\* with exactly one value on the stack, which Return pops and reports, or stops
\* at an operator whose operands have the wrong type, with the message reported
\* and the VM reset.  The stack is empty in both cases.
C30_CompiledChunkBalanced ==
    (vmcall.op = "interpret" /\ ccall.outcome = "return" /\ ccall.ok)
        => /\ vmcall.entry = reset
           /\ stack = <<>>
           /\ \/ /\ vmcall.result = "Ok"
                 /\ Len(vmcall.out) = 1
                 /\ vmcall.err = <<>>
                 /\ chunk.code[ip + 1] = OpReturn
                 /\ ip + 1 = Len(chunk.code)
              \/ /\ vmcall.result = "RuntimeError"
                 /\ vmcall.out = <<>>
                 /\ Len(vmcall.err) = 1
                 /\ ip = reset.ip

\* a compiled chunk that stops at a type error before Return: "-true"
C30_Witness ==
    /\ vmcall.op = "interpret"
    /\ ccall.outcome = "return" /\ ccall.ok
    /\ source = <<"-", "t", "r", "u", "e">>
    /\ vmcall.result = "RuntimeError"
    /\ Len(vmcall.err) = 1
    /\ vmcall.err[1].message = "Operand must be a number"
    /\ stack = <<>>

\* a compiled chunk of several operators that reaches Return with one value
ReturnAfterOperatorsReached ==
    /\ vmcall.op = "interpret"
    /\ ccall.outcome = "return" /\ ccall.ok
    /\ vmcall.result = "Ok"
    /\ vmcall.turns >= 4
    /\ Len(vmcall.out) = 1
    /\ stack = <<>>

\* C31: interpret_chunk is repeatable on one VM: a call of interpret_chunk that
\* comes directly after a call on the same chunk that started from the reset
\* VM and returned Ok starts at ip = 0 with an empty stack, and returns Ok
\* with the same value reported.
C31_InterpretChunkRepeatable ==
    [][(/\ vmcall.op = "interpret_chunk"
        /\ vmcall.entry = reset
        /\ vmcall.result = "Ok"
        /\ vmcall'.op = "interpret_chunk"
        /\ chunk' = chunk)
       => /\ vmcall'.entry = reset
          /\ vmcall'.result = "Ok"
          /\ vmcall'.out = vmcall.out]_vars

\* the value the VM is to push for a literal token
LiteralValue(tok) ==
    CASE tok.token_type = "Number" -> parse_f64(tok.lexeme)
      [] tok.token_type = "True" -> Bool(TRUE)
      [] tok.token_type = "False" -> Bool(FALSE)
      [] tok.token_type = "Nil" -> Nil

\* C32: for every literal compiled so far, whatever their number, the pool
\* has one value per literal, the chunk holds Constant followed by an operand
\* byte equal to the index add_constant returned for it, and executing that
\* Constant pushes exactly the literal's value.
C32_ConstantPushesItsLiteral ==
    /\ Len(chunk.constants) = Len(written)
    /\ \A n \in 1..Len(written) :
          /\ chunk.code[written[n].at + 1] = OpConstant
          /\ chunk.code[written[n].at + 2] = written[n].index
          /\ turn(chunk, written[n].at, <<>>).stack = <<LiteralValue(written[n].token)>>

====
